---- MODULE Spec2Model ----
(***************************************************************************)
(* A model of the scene graph object model of src/Util/SceneGraph.cpp:     *)
(* owner back-references and their connectivity signal, the child lists of *)
(* groups, the lazily cached bounding boxes, the upward update walk, and   *)
(* cloning through an SgCloneMap.                                          *)
(*                                                                         *)
(* Objects are numbered; the number of an object stands for its address,   *)
(* so a container ordered by pointer is iterated in increasing number.     *)
(* The caller keeps a reference to every object of the scene it built, so  *)
(* that no object is destroyed while the operations run.                   *)
(***************************************************************************)
EXTENDS Integers, Sequences, FiniteSets, TLC

\* ------------------------------------------------------------------ bounds

\* Size of the object pool (addresses 1..MaxObj).
MaxObj == 16

\* Longest child list a group is grown to by addChild.
MaxChildren == 2

\* Most entries one owner is given in one object's owner container.
MaxOwnerCount == 2

\* Most objects alive when an operation that allocates is called.
MaxLive == 7

\* ------------------------------------------------------------ the universe

Null == 0

\* MeshGenerator::MeshGenerator: divisionNumber_ = 20
DefaultDivisionNumber == 20

Obj == 1 .. MaxObj

GroupKinds ==
    {"SgGroup", "SgInvariantGroup", "SgPosTransform", "SgScaleTransform",
     "SgUnpickableGroup", "SgOverlay"}

NodeKinds ==
    GroupKinds \cup
        {"SgNode", "SgShape", "SgPointSet", "SgLineSet", "SgPreprocessed",
         "SgLight", "SgDirectionalLight", "SgPointLight", "SgSpotLight",
         "SgCamera", "SgPerspectiveCamera", "SgOrthographicCamera", "SgFog"}

SlotNames ==
    {"mesh", "material", "texture", "vertices", "normals", "colors",
     "texCoords", "image", "textureTransform"}

\* The reference slots an object of each kind has.
SlotsOf(k) ==
    CASE k = "SgShape" -> {"mesh", "material", "texture"}
      [] k = "SgMesh" -> {"vertices", "normals", "colors", "texCoords"}
      [] k \in {"SgPointSet", "SgLineSet"} ->
            {"vertices", "normals", "colors", "material"}
      [] k = "SgTexture" -> {"image", "textureTransform"}
      [] OTHER -> {}

\* The slots of a new object of kind k, all empty.
NoSlots(k) == [s \in SlotsOf(k) |-> Null]

VARIABLES
    kind,                    \* dynamic type of each object, "free" when unallocated
    children,                \* SgGroup::children
    slot,                    \* mesh_, material_, texture_, vertices_, ... of holders
    owners,                  \* SgObject::owners, in the order of its iteration
    isBboxCacheValid,        \* SgGroup::isBboxCacheValid
    bboxCache,               \* SgGroup::bboxCache
    untransformedBboxCache,  \* SgTransform::untransformedBboxCache
    bbox,                    \* SgMeshBase::bbox, SgPlot::bbox
    T_,                      \* SgPosTransform::T_ (its translation)
    scale_,                  \* SgScaleTransform::scale_
    content,                 \* value fields of a payload object
    triangleVertices_,       \* SgMesh::triangleVertices_, one index triple per triangle
    primitive_,              \* SgMesh::primitive_
    divisionNumber_,         \* MeshGenerator::divisionNumber_
    image_,                  \* SgImage::image_, the Image it shares
    parent_,                 \* Item::parent_
    itemLinks,               \* Item::firstChild_, lastChild_, prevItem_, nextItem_,
                             \* numChildren_ and the reference count, per item
    attributes,              \* Item::attributes, the flags that are set
    impl,                    \* WorldItem::impl: isCollisionDetectionEnabled and whether
                             \* sigItemTreeChangedConnection is connected
    cloneMap,                \* SgCloneMap::cloneMap, original -> clone
    isNonNodeCloningEnabled_,\* SgCloneMap::isNonNodeCloningEnabled_
    cloneCalls,              \* per original: how many times clone() ran for the map
    clonedShared,            \* originals whose clone() ran with non-node cloning off
    observed,                \* slots are connected to the signals of the objects
    ownerCalls,              \* addOwner / removeOwner calls of the last operation
    sigUpdated,              \* sigUpdated_ emissions of the last operation (paths)
    updateSeen,              \* what a slot of sigUpdated_ found at each emission
    recomputed,              \* groups whose box the last operation recomputed
    lastOp,                  \* the last operation and what it returned
    hung                     \* an operation recursed without end

heapVars ==
    <<kind, children, slot, owners, isBboxCacheValid, bboxCache,
      untransformedBboxCache, bbox, T_, scale_, content, cloneMap,
      isNonNodeCloningEnabled_, cloneCalls, clonedShared, triangleVertices_,
      primitive_, divisionNumber_, image_, parent_, itemLinks, attributes,
      impl>>

vars ==
    <<heapVars, observed, ownerCalls, sigUpdated, updateSeen, recomputed, lastOp,
      hung>>

\* The state as one record, threaded through the operations; the two logs
\* start empty for each operation.
Heap ==
    [kind |-> kind, children |-> children, slot |-> slot, owners |-> owners,
     isBboxCacheValid |-> isBboxCacheValid, bboxCache |-> bboxCache,
     untransformedBboxCache |-> untransformedBboxCache, bbox |-> bbox,
     T_ |-> T_, scale_ |-> scale_, content |-> content, cloneMap |-> cloneMap,
     isNonNodeCloningEnabled_ |-> isNonNodeCloningEnabled_,
     cloneCalls |-> cloneCalls, clonedShared |-> clonedShared,
     triangleVertices_ |-> triangleVertices_, primitive_ |-> primitive_,
     divisionNumber_ |-> divisionNumber_, image_ |-> image_,
     parent_ |-> parent_, itemLinks |-> itemLinks, attributes |-> attributes,
     impl |-> impl,
     ownerCalls |-> <<>>, sigUpdated |-> <<>>, updateSeen |-> <<>>,
     recomputed |-> {},
     diverged |-> FALSE,
     exhausted |-> FALSE,
     thrown |-> FALSE]

\* ------------------------------------------------------------ BoundingBox

EmptyBox == <<>>

Min2(a, b) == IF a <= b THEN a ELSE b

Max2(a, b) == IF a >= b THEN a ELSE b

MakeBox(lo, hi) == <<lo, hi>>

\* BoundingBox::expandBy(const BoundingBox&)
ExpandBy(b, c) ==
    IF c = EmptyBox THEN b
    ELSE IF b = EmptyBox THEN c
    ELSE <<[i \in 1 .. 3 |-> Min2(b[1][i], c[1][i])],
           [i \in 1 .. 3 |-> Max2(b[2][i], c[2][i])]>>

\* BoundingBox::transform by a translation
TranslateBox(b, t) ==
    IF b = EmptyBox THEN EmptyBox
    ELSE <<[i \in 1 .. 3 |-> b[1][i] + t[i]], [i \in 1 .. 3 |-> b[2][i] + t[i]]>>

\* BoundingBox::transform by a diagonal matrix
ScaleBox(b, s) ==
    IF b = EmptyBox THEN EmptyBox
    ELSE <<[i \in 1 .. 3 |-> Min2(b[1][i] * s[i], b[2][i] * s[i])],
           [i \in 1 .. 3 |-> Max2(b[1][i] * s[i], b[2][i] * s[i])]>>

\* -------------------------------------------------- owners and connectivity

\* owners.size()
OwnerSize(own) == Len(own)

\* The owners, each once.
OwnerSet(own) == {own[i] : i \in 1 .. Len(own)}

\* The number of entries owner g has in the container.
OwnerCount(own, g) == Cardinality({i \in 1 .. Len(own) : own[i] = g})

\* owners.insert(node): the container keeps its entries ordered
OwnersInsert(own, node) ==
    LET k == Cardinality({i \in 1 .. Len(own) : own[i] <= node})
    IN  SubSeq(own, 1, k) \o <<node>> \o SubSeq(own, k + 1, Len(own))

\* owners.erase(node): erase by key
OwnersErase(own, node) == SelectSeq(own, LAMBDA x : x # node)

\* What addOwner emits on sigGraphConnection_ given the size after the insert.
AddOwnerSignal(sizeAfter) == IF sizeAfter = 1 THEN <<TRUE>> ELSE <<>>

\* The test of addOwner copied into removeOwner.
RemoveOwnerSignalSizeOne(sizeAfter) == IF sizeAfter = 1 THEN <<FALSE>> ELSE <<>>

\* What removeOwner emits on sigGraphConnection_ given the size after the erase.
RemoveOwnerSignal(sizeAfter) == IF sizeAfter = 0 THEN <<FALSE>> ELSE <<>>

OwnerCall(op, o, node, before, after, fired) ==
    [op |-> op, obj |-> o, owner |-> node, before |-> before, after |-> after,
     fired |-> fired]

\* SgObject::addOwner(SgObject* node)
SgObject_addOwner(h, o, node) ==
    LET own == OwnersInsert(h.owners[o], node)
    IN  [h EXCEPT !.owners[o] = own,
                  !.ownerCalls = Append(@, OwnerCall("addOwner", o, node,
                                     OwnerSize(h.owners[o]), OwnerSize(own),
                                     AddOwnerSignal(OwnerSize(own))))]

\* SgObject::removeOwner(SgObject* node)
SgObject_removeOwner(h, o, node) ==
    LET own == OwnersErase(h.owners[o], node)
    IN  [h EXCEPT !.owners[o] = own,
                  !.ownerCalls = Append(@, OwnerCall("removeOwner", o, node,
                                     OwnerSize(h.owners[o]), OwnerSize(own),
                                     RemoveOwnerSignal(OwnerSize(own))))]

\* ------------------------------------------------------- the update walk

RECURSIVE UpClosure(_, _)
UpClosure(own, S) ==
    LET T == S \cup UNION {OwnerSet(own[x]) : x \in S}
    IN  IF T = S THEN S ELSE UpClosure(own, T)

\* Every object the walk from o visits: o and its transitive owners.
Ancestors(own, o) == UpClosure(own, {o})

\* The owners of o, transitively, o itself only when it lies on a cycle.
StrictAncestors(own, o) ==
    IF OwnerSet(own[o]) = {} THEN {} ELSE UpClosure(own, OwnerSet(own[o]))

\* The walk from o runs into a cycle of owner links and never returns.
UpCyclic(own, o) == \E x \in Ancestors(own, o) : x \in StrictAncestors(own, x)

\* SgGroup::invalidateBoundingBox
invalidateBoundingBox(h, g) == [h EXCEPT !.isBboxCacheValid[g] = FALSE]

\* SgGroup::transferUpdate with the test on the action tag in force.
SgGroup_transferUpdateOnBBoxOnly(h, g, action) ==
    IF action = "BBOX_UPDATED" THEN invalidateBoundingBox(h, g) ELSE h

\* SgGroup::transferUpdate, the part before the call of the base class
SgGroup_transferUpdate(h, g, action) == invalidateBoundingBox(h, g)

\* What a slot connected to sigUpdated_ finds when it is called during the
\* walk that started at object x: the action of the update, the groups that
\* have x in their child list and the owners of x.
Seen(h, x, action) ==
    [action |-> action, origin |-> x,
     parents |-> {g \in Obj : \E i \in 1 .. Len(h.children[g]) : h.children[g][i] = x},
     owners |-> OwnerSet(h.owners[x])]

RECURSIVE SgObject_transferUpdate(_, _, _, _)
RECURSIVE TransferToOwners(_, _, _, _)

\* SgObject::transferUpdate, entered through the virtual call
SgObject_transferUpdate(h, o, action, path) ==
    LET h1 == IF h.kind[o] \in GroupKinds
              THEN SgGroup_transferUpdate(h, o, action) ELSE h
        p2 == Append(path, o)
        h2 == [h1 EXCEPT !.sigUpdated = Append(@, p2),
                         !.updateSeen = Append(@, Seen(h1, p2[1], action))]
    IN  TransferToOwners(h2, h2.owners[o], action, p2)

\* The loop over the owners left after its first iteration.
TransferToFirstOwner(h, os, action, path) ==
    IF os = <<>> THEN h ELSE SgObject_transferUpdate(h, Head(os), action, path)

\* SgObject::transferUpdate, the loop over the owners
TransferToOwners(h, os, action, path) ==
    IF os = <<>> THEN h
    ELSE TransferToOwners(SgObject_transferUpdate(h, Head(os), action, path),
                          Tail(os), action, path)

\* SgObject::notifyUpdate(SgUpdate&): the walk, or its divergence on a cycle
SgObject_notifyUpdate(h, o, action) ==
    IF h.diverged THEN h
    ELSE IF UpCyclic(h.owners, o) THEN [h EXCEPT !.diverged = TRUE]
    ELSE SgObject_transferUpdate(h, o, action, <<>>)

\* addOwner(node, update) with the walk started before the insert.
SgObject_addOwner_updateFirst(h, o, node, action) ==
    LET h1 == SgObject_notifyUpdate(h, o, action)
        own == OwnersInsert(h1.owners[o], node)
    IN  [h1 EXCEPT !.owners[o] = own,
                   !.ownerCalls = Append(@, OwnerCall("addOwner", o, node,
                                      OwnerSize(h.owners[o]), OwnerSize(own),
                                      AddOwnerSignal(OwnerSize(own))))]

\* SgObject::addOwner(SgObject* node, SgUpdate& update)
SgObject_addOwner_update(h, o, node, action) ==
    LET own == OwnersInsert(h.owners[o], node)
        h1 == SgObject_notifyUpdate([h EXCEPT !.owners[o] = own], o, action)
    IN  [h1 EXCEPT !.ownerCalls = Append(@, OwnerCall("addOwner", o, node,
                                     OwnerSize(h.owners[o]), OwnerSize(own),
                                     AddOwnerSignal(OwnerSize(own))))]

\* --------------------------------------------------------------- SgGroup

\* children.erase(p) for the iterator at position i (from 1)
EraseAt(seq, i) == SubSeq(seq, 1, i - 1) \o SubSeq(seq, i + 1, Len(seq))

\* SgGroup::contains
SgGroup_contains(h, g, node) == \E i \in 1 .. Len(h.children[g]) : h.children[g][i] = node

\* SgGroup::addChild
SgGroup_addChild(h, g, node, doNotify) ==
    IF node = Null THEN h
    ELSE LET h1 == [h EXCEPT !.children[g] = Append(@, node)]
         IN  IF doNotify
             THEN SgObject_addOwner_update(h1, node, g, "ADDED")
             ELSE SgObject_addOwner(h1, node, g)

\* The matching iteration without the notification.
RemoveChildStepSilent(h, g, i, doNotify) ==
    SgObject_removeOwner([h EXCEPT !.children[g] = EraseAt(@, i)], h.children[g][i], g)

\* One matching iteration of the loop of SgGroup::removeChild, at position i.
RemoveChildStep(h, g, i, doNotify) ==
    LET child == h.children[g][i]
        h1 == IF doNotify THEN SgObject_notifyUpdate(h, child, "REMOVED") ELSE h
        h2 == [h1 EXCEPT !.children[g] = EraseAt(@, i)]
    IN  SgObject_removeOwner(h2, child, g)

RECURSIVE RemoveChildLoopFirstOnly(_, _, _, _, _, _)
\* The loop leaving at the first match.
RemoveChildLoopFirstOnly(h, g, node, i, doNotify, removed) ==
    IF i > Len(h.children[g]) THEN [h |-> h, ret |-> removed]
    ELSE IF h.children[g][i] = node
         THEN [h |-> RemoveChildStep(h, g, i, doNotify), ret |-> TRUE]
         ELSE RemoveChildLoopFirstOnly(h, g, node, i + 1, doNotify, removed)

RECURSIVE RemoveChildLoop(_, _, _, _, _, _)
RemoveChildLoop(h, g, node, i, doNotify, removed) ==
    IF i > Len(h.children[g]) THEN [h |-> h, ret |-> removed]
    ELSE IF h.children[g][i] = node
         THEN RemoveChildLoop(RemoveChildStep(h, g, i, doNotify), g, node, i,
                              doNotify, TRUE)
         ELSE RemoveChildLoop(h, g, node, i + 1, doNotify, removed)

\* SgGroup::removeChild: the state it leaves and the value it returns
SgGroup_removeChild(h, g, node, doNotify) ==
    RemoveChildLoop(h, g, node, 1, doNotify, FALSE)

\* SgGroup::removeChildAt, index counted from 0
SgGroup_removeChildAt(h, g, index, doNotify) ==
    LET child == h.children[g][index + 1]
        h1 == IF doNotify THEN SgObject_notifyUpdate(h, child, "REMOVED") ELSE h
        h2 == SgObject_removeOwner(h1, child, g)
    IN  [h2 EXCEPT !.children[g] = EraseAt(@, index + 1)]

RECURSIVE NotifyEach(_, _, _)
NotifyEach(h, nodes, action) ==
    IF nodes = <<>> THEN h
    ELSE NotifyEach(SgObject_notifyUpdate(h, Head(nodes), action), Tail(nodes), action)

\* SgGroup::clearChildren
SgGroup_clearChildren(h, g, doNotify) ==
    LET h1 == IF doNotify THEN NotifyEach(h, h.children[g], "REMOVED") ELSE h
    IN  [h1 EXCEPT !.children[g] = <<>>]

\* ----------------------------------------------------------- boundingBox()

\* SgShape::boundingBox, SgNode::boundingBox, SgPlot::boundingBox
LeafBoundingBox(h, o) ==
    CASE h.kind[o] = "SgShape" ->
            IF h.slot[o]["mesh"] # Null THEN h.bbox[h.slot[o]["mesh"]] ELSE EmptyBox
      [] h.kind[o] \in {"SgPointSet", "SgLineSet"} -> h.bbox[o]
      [] OTHER -> EmptyBox

\* The transform a group applies to the union of its children's boxes.
TransformOwn(h, g, b) ==
    CASE h.kind[g] = "SgPosTransform" -> TranslateBox(b, h.T_[g])
      [] h.kind[g] = "SgScaleTransform" -> ScaleBox(b, h.scale_[g])
      [] OTHER -> b

\* SgGroup / SgPosTransform / SgScaleTransform::boundingBox: the writes made
\* once the loop over the children has produced their union u.
StoreBoundingBox(h, g, u) ==
    [h EXCEPT !.bboxCache[g] = TransformOwn(h, g, u),
              !.untransformedBboxCache[g] =
                  IF h.kind[g] \in {"SgPosTransform", "SgScaleTransform"} THEN u ELSE @,
              !.isBboxCacheValid[g] = TRUE,
              !.recomputed = @ \cup {g}]

RECURSIVE BoundingBoxCall(_, _, _)
RECURSIVE ExpandByChildren(_, _, _, _)

\* boundingBox() of a group without the test of isBboxCacheValid.
BoundingBoxCallUncached(h, o, computing) ==
    IF h.kind[o] \notin GroupKinds
    THEN [h |-> h, box |-> LeafBoundingBox(h, o), diverged |-> FALSE]
    ELSE IF o \in computing
    THEN [h |-> h, box |-> EmptyBox, diverged |-> TRUE]
    ELSE LET r == ExpandByChildren(h, h.children[o], EmptyBox, computing \cup {o})
         IN  IF r.diverged THEN r
             ELSE LET h1 == StoreBoundingBox(r.h, o, r.box)
                  IN  [h |-> h1, box |-> h1.bboxCache[o], diverged |-> FALSE]

\* The virtual boundingBox() of object o: the heap it leaves, the box it
\* returns, and whether it recursed into a group already being computed.
BoundingBoxCall(h, o, computing) ==
    IF h.kind[o] \notin GroupKinds
    THEN [h |-> h, box |-> LeafBoundingBox(h, o), diverged |-> FALSE]
    ELSE IF h.isBboxCacheValid[o]
    THEN [h |-> h, box |-> h.bboxCache[o], diverged |-> FALSE]
    ELSE IF o \in computing
    THEN [h |-> h, box |-> EmptyBox, diverged |-> TRUE]
    ELSE LET r == ExpandByChildren(h, h.children[o], EmptyBox, computing \cup {o})
         IN  IF r.diverged THEN r
             ELSE LET h1 == StoreBoundingBox(r.h, o, r.box)
                  IN  [h |-> h1, box |-> h1.bboxCache[o], diverged |-> FALSE]

ExpandByChildren(h, cs, acc, computing) ==
    IF cs = <<>> THEN [h |-> h, box |-> acc, diverged |-> FALSE]
    ELSE LET r == BoundingBoxCall(h, Head(cs), computing)
         IN  IF r.diverged THEN r
             ELSE ExpandByChildren(r.h, Tail(cs), ExpandBy(acc, r.box), computing)

\* SgTransform::untransformedBoundingBox
SgTransform_untransformedBoundingBox(h, g) ==
    LET r == IF ~h.isBboxCacheValid[g] THEN BoundingBoxCall(h, g, {})
             ELSE [h |-> h, box |-> EmptyBox, diverged |-> FALSE]
    IN  [h |-> r.h, box |-> r.h.untransformedBboxCache[g], diverged |-> r.diverged]

\* ------------------------------------------------------------ the setters

\* The setter of a reference slot: SgShape::setMesh, setMaterial, setTexture,
\* SgMeshBase::setVertices, setNormals, setColors, setTexCoords,
\* SgTexture::setImage, setTextureTransform, SgPlot's setters.
SetSlot(h, holder, name, p) ==
    LET old == h.slot[holder][name]
        h1 == IF old # Null THEN SgObject_removeOwner(h, old, holder) ELSE h
        h2 == [h1 EXCEPT !.slot[holder][name] = p]
    IN  IF p # Null THEN SgObject_addOwner(h2, p, holder) ELSE h2

\* ---------------------------------------------------------------- cloning

\* operator new: the free object of lowest address, Null when the pool is used up
NewObject(h) ==
    LET free == {o \in Obj : h.kind[o] = "free"}
    IN  IF free = {} THEN Null ELSE CHOOSE o \in free : \A q \in free : o <= q

\* The slots the cloning constructor of kind k carries over, in its order.
ClonedSlots(k) ==
    CASE k = "SgShape" -> <<"mesh", "material", "texture">>
      [] k = "SgMesh" -> <<"vertices", "normals", "colors">>
      [] k \in {"SgPointSet", "SgLineSet"} -> <<"vertices", "colors", "material">>
      [] k = "SgTexture" -> <<"image", "textureTransform">>
      [] OTHER -> <<>>

\* cloneMap->find(org)
MapFind(h, org) == h.cloneMap[org]

\* The statement (*cloneMap)[org] = clone left out.
MapStoreOmitted(h, org, clone) == h

\* (*cloneMap)[org] = clone
MapStore(h, org, clone) == [h EXCEPT !.cloneMap[org] = clone]

\* The copy constructor SgObject(org) and the member initialisers of the
\* cloning constructors, for the new object c: the value fields of org, no
\* child, no reference, no owner.
CopyValueFields(h, c, org) ==
    [h EXCEPT !.kind[c] = h.kind[org],
              !.children[c] = <<>>,
              !.slot[c] = NoSlots(h.kind[org]),
              !.owners[c] = <<>>,
              !.content[c] = h.content[org],
              !.triangleVertices_[c] = h.triangleVertices_[org],
              !.primitive_[c] = h.primitive_[org],
              !.image_[c] = h.image_[org],
              !.T_[c] = h.T_[org],
              !.scale_[c] = h.scale_[org],
              !.isBboxCacheValid[c] = FALSE,
              !.cloneCalls[org] = @ + 1,
              !.clonedShared =
                  IF ~h.isNonNodeCloningEnabled_ /\ SlotsOf(h.kind[org]) # {}
                  THEN @ \cup {org} ELSE @]

\* The end of SgGroup(org, cloneMap) and SgTransform(org, cloneMap)
CopyBoundingBoxCache(h, c, org) ==
    [h EXCEPT !.isBboxCacheValid[c] = TRUE,
              !.bboxCache[c] = h.bboxCache[org],
              !.untransformedBboxCache[c] =
                  IF h.kind[org] \in {"SgPosTransform", "SgScaleTransform"}
                  THEN h.untransformedBboxCache[org] ELSE @]

RECURSIVE SgCloneMap_findOrCreateClone(_, _, _)
RECURSIVE CloneObject(_, _, _)
RECURSIVE CloneChildren(_, _, _, _)
RECURSIVE CloneSlots(_, _, _, _, _)

Failed(h) == h.diverged \/ h.exhausted

\* SgCloneMap::getClone<T>
getClone(h, org, cloning) == SgCloneMap_findOrCreateClone(h, org, cloning)

\* The loop body of the copy constructor SgGroup(org): the child itself.
SgGroup_shareChild(h, c, p, cloning) == SgGroup_addChild(h, c, p, FALSE)

\* The loop body of SgGroup(org, cloneMap) for child p of org
SgGroup_cloneChild(h, c, p, cloning) ==
    LET r == getClone(h, p, cloning)
    IN  IF Failed(r.h) THEN r.h ELSE SgGroup_addChild(r.h, c, r.ret, FALSE)

\* A cloning constructor that takes the branch of disabled non-node cloning.
ShareSlot(h, c, org, name, cloning) == SetSlot(h, c, name, h.slot[org][name])

\* One slot in the cloning constructor of SgShape, SgMeshBase, SgPlot, SgTexture
CloneSlot(h, c, org, name, cloning) ==
    IF h.isNonNodeCloningEnabled_
    THEN IF h.slot[org][name] # Null
         THEN LET r == getClone(h, h.slot[org][name], cloning)
              IN  IF Failed(r.h) THEN r.h ELSE SetSlot(r.h, c, name, r.ret)
         ELSE h
    ELSE SetSlot(h, c, name, h.slot[org][name])

CloneChildren(h, c, cs, cloning) ==
    IF cs = <<>> \/ Failed(h) THEN h
    ELSE CloneChildren(SgGroup_cloneChild(h, c, Head(cs), cloning), c, Tail(cs),
                       cloning)

CloneSlots(h, c, org, names, cloning) ==
    IF names = <<>> \/ Failed(h) THEN h
    ELSE CloneSlots(CloneSlot(h, c, org, Head(names), cloning), c, org,
                    Tail(names), cloning)

\* clone() that enters the new object in the map before it clones the children.
CloneObjectMapFirst(h, org, cloning) ==
    LET c == NewObject(h)
    IN  IF c = Null THEN [h |-> [h EXCEPT !.exhausted = TRUE], ret |-> Null]
        ELSE LET h0 == MapStore(CopyValueFields(h, c, org), org, c)
                 h1 == IF h.kind[org] \in GroupKinds
                       THEN CloneChildren(h0, c, h.children[org], cloning)
                       ELSE CloneSlots(h0, c, org, ClonedSlots(h.kind[org]), cloning)
             IN  [h |-> h1, ret |-> c]

\* org->clone(cloneMap), the virtual call: the clone() of each class runs the
\* cloning constructor of the class on a new object.
CloneObject(h, org, cloning) ==
    LET c == NewObject(h)
    IN  IF c = Null THEN [h |-> [h EXCEPT !.exhausted = TRUE], ret |-> Null]
        ELSE LET h0 == CopyValueFields(h, c, org)
                 h1 == IF h.kind[org] \in GroupKinds
                       THEN LET hc == CloneChildren(h0, c, h.children[org], cloning)
                            IN  IF Failed(hc) THEN hc
                                ELSE CopyBoundingBoxCache(hc, c, org)
                       ELSE LET hs == CloneSlots(h0, c, org, ClonedSlots(h.kind[org]),
                                                 cloning)
                            IN  IF Failed(hs) THEN hs
                                ELSE [hs EXCEPT !.bbox[c] = h.bbox[org]]
             IN  [h |-> h1, ret |-> c]

\* SgCloneMap::findOrCreateClone; the clone of an object that is being cloned
\* further up the call stack is asked for again without end.
SgCloneMap_findOrCreateClone(h, org, cloning) ==
    IF Failed(h) THEN [h |-> h, ret |-> Null]
    ELSE IF MapFind(h, org) # Null THEN [h |-> h, ret |-> MapFind(h, org)]
    ELSE IF org \in cloning THEN [h |-> [h EXCEPT !.diverged = TRUE], ret |-> Null]
    ELSE LET r == CloneObject(h, org, cloning \cup {org})
         IN  IF Failed(r.h) THEN r
             ELSE [h |-> MapStore(r.h, org, r.ret), ret |-> r.ret]

\* ------------------------------------------------------ states and steps

Nodes == {o \in Obj : kind[o] \in NodeKinds}

Groups == {o \in Obj : kind[o] \in GroupKinds}

Live == {o \in Obj : kind[o] # "free"}

Op(name, o, arg, doNotify, ret) ==
    [op |-> name, obj |-> o, arg |-> arg, notify |-> doNotify, ret |-> ret]

\* The state a returned operation leaves; an operation that recursed without
\* end leaves the process hung in the state it was called in. The signals
\* reach a slot only when one is connected.
Commit(h, op) ==
    /\ lastOp' = op
    /\ observed' = observed
    /\ IF h.diverged
       THEN /\ hung' = TRUE
            /\ UNCHANGED <<heapVars, ownerCalls, sigUpdated, updateSeen, recomputed>>
       ELSE /\ hung' = hung
            /\ kind' = h.kind
            /\ children' = h.children
            /\ slot' = h.slot
            /\ owners' = h.owners
            /\ isBboxCacheValid' = h.isBboxCacheValid
            /\ bboxCache' = h.bboxCache
            /\ untransformedBboxCache' = h.untransformedBboxCache
            /\ bbox' = h.bbox
            /\ T_' = h.T_
            /\ scale_' = h.scale_
            /\ content' = h.content
            /\ cloneMap' = h.cloneMap
            /\ isNonNodeCloningEnabled_' = h.isNonNodeCloningEnabled_
            /\ cloneCalls' = h.cloneCalls
            /\ clonedShared' = h.clonedShared
            /\ triangleVertices_' = h.triangleVertices_
            /\ primitive_' = h.primitive_
            /\ divisionNumber_' = h.divisionNumber_
            /\ image_' = h.image_
            /\ parent_' = h.parent_
            /\ itemLinks' = h.itemLinks
            /\ attributes' = h.attributes
            /\ impl' = h.impl
            /\ ownerCalls' = IF observed THEN h.ownerCalls ELSE <<>>
            /\ sigUpdated' = IF observed THEN h.sigUpdated ELSE <<>>
            /\ updateSeen' = IF observed THEN h.updateSeen ELSE <<>>
            /\ recomputed' = h.recomputed

\* How many references object g holds to object o.
Refs(ch, sl, g, o) ==
    Cardinality({i \in 1 .. Len(ch[g]) : ch[g][i] = o})
        + Cardinality({n \in DOMAIN sl[g] : sl[g][n] = o})

RECURSIVE OwnersBuilt(_, _, _, _, _)
OwnersBuilt(ch, sl, o, g, k) ==
    IF g > MaxObj THEN <<>>
    ELSE IF k < Refs(ch, sl, g, o) THEN <<g>> \o OwnersBuilt(ch, sl, o, g, k + 1)
    ELSE OwnersBuilt(ch, sl, o, g + 1, 0)

\* A scene as the constructors, addChild and the setters leave it: every
\* reference registered in the owner container of its target, the caches of
\* the groups invalid (SgGroup::SgGroup), a new clone map (SgCloneMap::SgCloneMap).
Constructed(kinds, ch, sl, boxes, obs) ==
    /\ kind = kinds
    /\ children = ch
    /\ slot = sl
    /\ owners = [o \in Obj |-> OwnersBuilt(ch, sl, o, 1, 0)]
    /\ isBboxCacheValid = [o \in Obj |-> FALSE]
    /\ bboxCache = [o \in Obj |-> EmptyBox]
    /\ untransformedBboxCache = [o \in Obj |-> EmptyBox]
    /\ bbox = boxes
    /\ T_ = [o \in Obj |-> IF kinds[o] = "SgPosTransform" THEN <<1, 0, 0>> ELSE <<0, 0, 0>>]
    /\ scale_ = [o \in Obj |-> IF kinds[o] = "SgScaleTransform" THEN <<2, 3, 1>> ELSE <<1, 1, 1>>]
    /\ content = [o \in Obj |-> 0]
    /\ cloneMap = [o \in Obj |-> Null]
    /\ isNonNodeCloningEnabled_ = TRUE
    /\ cloneCalls = [o \in Obj |-> 0]
    /\ clonedShared = {}
    /\ triangleVertices_ = [o \in Obj |-> <<>>]
    /\ primitive_ = [o \in Obj |-> <<"MESH">>]
    /\ divisionNumber_ = DefaultDivisionNumber
    /\ image_ = [o \in Obj |-> Null]
    /\ parent_ = [o \in Obj |-> Null]
    /\ itemLinks = [o \in Obj |-> [firstChild_ |-> Null, lastChild_ |-> Null,
                                    prevItem_ |-> Null, nextItem_ |-> Null,
                                    numChildren_ |-> 0, refCount |-> 0]]
    /\ attributes = [o \in Obj |-> {}]
    /\ impl = [o \in Obj |-> [isCollisionDetectionEnabled |-> FALSE,
                               sigItemTreeChangedConnection |-> FALSE]]
    /\ observed = obs
    /\ ownerCalls = <<>>
    /\ sigUpdated = <<>>
    /\ updateSeen = <<>>
    /\ recomputed = {}
    /\ lastOp = Op("new", Null, Null, FALSE, Null)
    /\ hung = FALSE

\* ------------------------------------------------- the scene under test

\* Root (1: SgGroup), a transform (2), a shape (3) with its mesh (4) and the
\* vertex array (5) of the mesh; the rest of the pool is free.
SceneKind ==
    [o \in Obj |->
        CASE o = 1 -> "SgGroup"
          [] o = 2 -> "SgPosTransform"
          [] o = 3 -> "SgShape"
          [] o = 4 -> "SgMesh"
          [] o = 5 -> "SgVertexArray"
          [] OTHER -> "free"]

SceneSlot ==
    [o \in Obj |->
        CASE o = 3 -> [NoSlots("SgShape") EXCEPT !["mesh"] = 4]
          [] o = 4 -> [NoSlots("SgMesh") EXCEPT !["vertices"] = 5]
          [] OTHER -> NoSlots("free")]

\* The vertices SgMesh::setBox gives a box of the given size (even extents).
SetBoxVertices(size) ==
    LET x == size[1] \div 2
        y == size[2] \div 2
        z == size[3] \div 2
    IN  << <<x, y, z>>, <<-x, y, z>>, <<-x, -y, z>>, <<x, -y, z>>,
           <<x, y, -z>>, <<-x, y, -z>>, <<-x, -y, -z>>, <<x, -y, -z>> >>

RECURSIVE ExpandByVertices(_, _)
\* The loop of SgMeshBase::updateBoundingBox: bboxf.expandBy(*p)
ExpandByVertices(b, vs) ==
    IF vs = <<>> THEN b
    ELSE ExpandByVertices(ExpandBy(b, MakeBox(Head(vs), Head(vs))), Tail(vs))

\* SgMeshBase::updateBoundingBox for a mesh with vertices
updateBoundingBox(vs) == ExpandByVertices(EmptyBox, vs)

\* The box of SgMesh::setBox(Vector3(2, 2, 2))
BoxOfSize2 == updateBoundingBox(SetBoxVertices(<<2, 2, 2>>))

SceneBoxes == [o \in Obj |-> IF o = 4 THEN BoxOfSize2 ELSE EmptyBox]

UpdateActions == {"MODIFIED", "BBOX_UPDATED"}

\* The nodes the operations on group g are called with: the shape under
\* either group, the transform under the root.
Attachable(g) == IF g = 1 THEN {2, 3} ELSE {3}

\* The nodes of the chain Root -> Transform -> Shape.
AttachableInChain(g) == IF g = 1 THEN {2} ELSE {3}

\* The objects notifyUpdate is called on: the root and the vertex array.
NotifyTargets == {1, 5}

Init == Constructed(SceneKind, [o \in Obj |-> <<>>], SceneSlot, SceneBoxes, TRUE)

\* ------------------------------------------------------------- operations

addChild(g, node, doNotify) ==
    /\ ~hung
    /\ Len(children[g]) < MaxChildren
    /\ OwnerCount(owners[node], g) < MaxOwnerCount
    /\ Commit(SgGroup_addChild(Heap, g, node, doNotify),
              Op("addChild", g, node, doNotify, Null))

removeChild(g, node, doNotify) ==
    /\ ~hung
    /\ LET r == SgGroup_removeChild(Heap, g, node, doNotify)
       IN  Commit(r.h, Op("removeChild", g, node, doNotify, r.ret))

removeChildAt(g, index, doNotify) ==
    /\ ~hung
    /\ index < Len(children[g])
    /\ Commit(SgGroup_removeChildAt(Heap, g, index, doNotify),
              Op("removeChildAt", g, index, doNotify, Null))

clearChildren(g, doNotify) ==
    /\ ~hung
    /\ Commit(SgGroup_clearChildren(Heap, g, doNotify),
              Op("clearChildren", g, Null, doNotify, Null))

notifyUpdate(o, action) ==
    /\ ~hung
    /\ Commit(SgObject_notifyUpdate(Heap, o, action),
              Op("notifyUpdate", o, action, TRUE, Null))

boundingBox(g) ==
    /\ ~hung
    /\ LET r == BoundingBoxCall(Heap, g, {})
       IN  Commit([r.h EXCEPT !.diverged = r.diverged],
                  Op("boundingBox", g, Null, FALSE, r.box))

Mutate(Att(_)) ==
    \/ \E g \in Groups, doNotify \in BOOLEAN :
          \E node \in Att(g) : addChild(g, node, doNotify)
    \/ \E g \in Groups, doNotify \in BOOLEAN :
          \E node \in Att(g) : removeChild(g, node, doNotify)
    \/ \E g \in Groups, index \in 0 .. MaxChildren - 1, doNotify \in BOOLEAN :
          removeChildAt(g, index, doNotify)
    \/ \E g \in Groups, doNotify \in BOOLEAN : clearChildren(g, doNotify)
    \/ \E o \in NotifyTargets, action \in UpdateActions : notifyUpdate(o, action)

\* Ownership and notification, observed through the signals.
Next == Mutate(Attachable)

Spec == Init /\ [][Next]_vars

\* The chain Root -> Transform -> Shape with the bounding boxes read between
\* the operations and no slot connected to the signals.
InitBBox ==
    \E k \in {"SgPosTransform", "SgScaleTransform"} :
        Constructed([SceneKind EXCEPT ![2] = k], [o \in Obj |-> <<>>], SceneSlot,
                    SceneBoxes, FALSE)

NextBBox ==
    \/ Mutate(AttachableInChain)
    \/ \E g \in Groups : boundingBox(g)

SpecBBox == InitBBox /\ [][NextBBox]_vars

\* The same chain with the position transform, the bounding boxes read and
\* slots connected to the signals.
SpecChain == Init /\ [][NextBBox]_vars

\* ----------------------------------------------------------- transforms

\* The diagonal matrix of a vector: scale_.asDiagonal()
AsDiagonal(v) == [i \in 1 .. 3 |-> [j \in 1 .. 3 |-> IF i = j THEN v[i] ELSE 0]]

\* getTransform that answers only while the bounding-box cache is valid.
SgPosTransform_getTransformWhenValid(h, g) ==
    IF h.isBboxCacheValid[g] THEN h.T_[g] ELSE <<0, 0, 0>>

\* SgPosTransform::getTransform: out_T = T_
SgPosTransform_getTransform(h, g) == h.T_[g]

\* SgScaleTransform::getTransform: out_T = scale_.asDiagonal()
SgScaleTransform_getTransform(h, g) == AsDiagonal(h.scale_[g])

\* The values the setters are called with.
TranslationValues == {<<1, 0, 0>>, <<0, 2, 0>>}

ScaleValues == {<<2, 3, 1>>, <<1, 1, 2>>}

\* SgPosTransform::setTranslation
setTranslation(g, t) ==
    /\ ~hung
    /\ kind[g] = "SgPosTransform"
    /\ Commit([Heap EXCEPT !.T_[g] = t], Op("setTranslation", g, t, FALSE, Null))

\* SgScaleTransform::setScale
setScale(g, v) ==
    /\ ~hung
    /\ kind[g] = "SgScaleTransform"
    /\ Commit([Heap EXCEPT !.scale_[g] = v], Op("setScale", g, v, FALSE, Null))

\* getTransform, the virtual call
getTransform(g) ==
    /\ ~hung
    /\ kind[g] \in {"SgPosTransform", "SgScaleTransform"}
    /\ Commit(Heap, Op("getTransform", g, Null, FALSE,
                       IF kind[g] = "SgPosTransform"
                       THEN SgPosTransform_getTransform(Heap, g)
                       ELSE SgScaleTransform_getTransform(Heap, g)))

\* The chain built up, its boxes read, its transform set and read back.
NextTransform ==
    \/ \E g \in Groups, doNotify \in BOOLEAN :
          \E node \in AttachableInChain(g) : addChild(g, node, doNotify)
    \/ \E g \in Groups : boundingBox(g)
    \/ \E action \in UpdateActions : notifyUpdate(5, action)
    \/ \E g \in Groups, t \in TranslationValues : setTranslation(g, t)
    \/ \E g \in Groups, v \in ScaleValues : setScale(g, v)
    \/ \E g \in Groups : getTransform(g)

SpecTransform == InitBBox /\ [][NextTransform]_vars

\* ------------------------------------------------------ the cloned scene

\* Groups A (1) and B (2: a transform), shapes S (3) and S2 (4) with their
\* meshes M1 (5) and M2 (6), which share the vertex array V (7); M1 also has
\* the texture coordinates TC (8). The rest of the pool is free.
CloneSceneKind ==
    [o \in Obj |->
        CASE o = 1 -> "SgGroup"
          [] o = 2 -> "SgPosTransform"
          [] o \in {3, 4} -> "SgShape"
          [] o \in {5, 6} -> "SgMesh"
          [] o = 7 -> "SgVertexArray"
          [] o = 8 -> "SgTexCoordArray"
          [] OTHER -> "free"]

Originals == {o \in Obj : CloneSceneKind[o] # "free"}

CloneSceneSlot ==
    [o \in Obj |->
        CASE o = 3 -> [NoSlots("SgShape") EXCEPT !["mesh"] = 5]
          [] o = 4 -> [NoSlots("SgShape") EXCEPT !["mesh"] = 6]
          [] o = 5 -> [NoSlots("SgMesh") EXCEPT !["vertices"] = 7, !["texCoords"] = 8]
          [] o = 6 -> [NoSlots("SgMesh") EXCEPT !["vertices"] = 7]
          [] OTHER -> NoSlots(CloneSceneKind[o])]

CloneSceneBoxes == [o \in Obj |-> IF o \in {5, 6} THEN BoxOfSize2 ELSE EmptyBox]

\* The child lists the scene is built with: S under A and S2 under B; S twice
\* under A and once more under B; B under A; B under A and A under B, a cycle.
CloneSceneChildren ==
    {[o \in Obj |-> CASE o = 1 -> t[1] [] o = 2 -> t[2] [] OTHER -> <<>>] :
        t \in {<< <<3>>, <<4>> >>, << <<3, 3>>, <<3, 4>> >>,
                << <<2, 3>>, <<4>> >>, << <<2, 3>>, <<1>> >>}}

\* The objects findOrCreateClone is called on: A, B and the mesh M1.
CloneRoots == {1, 2, 5}

InitClone ==
    \E ch \in CloneSceneChildren :
        Constructed(CloneSceneKind, ch, CloneSceneSlot, CloneSceneBoxes, FALSE)

\* The objects reached from o through child lists and reference slots.
RECURSIVE DownClosure(_)
DownClosure(S) ==
    LET T == S \cup UNION {{children[x][i] : i \in 1 .. Len(children[x])} : x \in S}
               \cup UNION {{slot[x][n] : n \in DOMAIN slot[x]} \ {Null} : x \in S}
    IN  IF T = S THEN S ELSE DownClosure(T)

Reach(o) == DownClosure({o})

Clones == {cloneMap[o] : o \in Obj} \ {Null}

findOrCreateClone(org) ==
    /\ ~hung
    /\ LET r == SgCloneMap_findOrCreateClone(Heap, org, {})
       IN  /\ ~r.h.exhausted
           /\ Commit(r.h, Op("findOrCreateClone", org, Null, FALSE, r.ret))

\* SgCloneMap::setNonNodeCloningEnabled
setNonNodeCloningEnabled(on) ==
    /\ ~hung
    /\ Commit([Heap EXCEPT !.isNonNodeCloningEnabled_ = on],
              Op("setNonNodeCloningEnabled", Null, on, FALSE, Null))

\* A write into the payload that slot name of the cloned holder refers to,
\* as through clone->vertices()->push_back(v).
writePayload(holder, name) ==
    /\ ~hung
    /\ holder \in Clones
    /\ name \in DOMAIN slot[holder]
    /\ slot[holder][name] # Null
    /\ SlotsOf(kind[slot[holder][name]]) = {}
    /\ Commit([Heap EXCEPT !.content[slot[holder][name]] = 1],
              Op("writePayload", holder, name, FALSE, Null))

NextClone ==
    \/ \E org \in CloneRoots : findOrCreateClone(org)
    \/ \E on \in BOOLEAN : setNonNodeCloningEnabled(on)
    \/ \E holder \in Obj : writePayload(holder, "vertices")

SpecClone == InitClone /\ [][NextClone]_vars

\* ------------------------------------------------------------------ cycles

\* The scene of the clones with every child list empty.
InitCycle ==
    Constructed(CloneSceneKind, [o \in Obj |-> <<>>], CloneSceneSlot,
                CloneSceneBoxes, FALSE)

\* addChild with any group or the shape S as the child, the receiver and its
\* ancestors included, and the cloning of either group.
NextCycle ==
    \/ \E g \in {1, 2}, node \in {1, 2, 3} : addChild(g, node, FALSE)
    \/ \E org \in {1, 2} : findOrCreateClone(org)

SpecCycle == InitCycle /\ [][NextCycle]_vars

\* ------------------------------------------------------------- primitives

\* new T(): an object of kind k with no reference, child, owner or content
New(h, k) ==
    LET c == NewObject(h)
    IN  IF c = Null THEN [h |-> [h EXCEPT !.exhausted = TRUE], ret |-> Null]
        ELSE [h |-> [h EXCEPT !.kind[c] = k,
                              !.children[c] = <<>>,
                              !.slot[c] = NoSlots(k),
                              !.owners[c] = <<>>,
                              !.content[c] = 0,
                              !.triangleVertices_[c] = <<>>,
                              !.primitive_[c] = <<"MESH">>,
                              !.bbox[c] = EmptyBox],
              ret |-> c]

\* The vertices of the ring of div points of radius r at height y that bound
\* it: (r cos a, y, r sin a) for a = i 2 PI / div meets the axes in four
\* points when 4 divides div, in two when div is 2 and in one when div is 1;
\* every other point of the ring lies between them. The loop over the ring
\* has no iteration when div is not positive.
RingVertices(r, y, div) ==
    IF div <= 0 THEN <<>>
    ELSE IF div = 1 THEN << <<r, y, 0>> >>
    ELSE IF div % 4 = 0
    THEN << <<r, y, 0>>, <<0, y, r>>, <<-r, y, 0>>, <<0, y, -r>> >>
    ELSE << <<r, y, 0>>, <<-r, y, 0>> >>

\* The number of iterations of for(int i = 0; i < n; ++i)
LoopCount(n) == IF n > 0 THEN n ELSE 0

\* The triangles of a loop of n iterations, Body(i) for i = 0 .. n - 1
RECURSIVE TrianglesOfLoop(_, _, _)
TrianglesOfLoop(Body(_), i, n) ==
    IF i >= n THEN <<>> ELSE Body(i) \o TrianglesOfLoop(Body, i + 1, n)

\* The addTriangle calls of setBox and generateBox
BoxTriangles ==
    << <<0, 1, 2>>, <<2, 3, 0>>, <<0, 5, 1>>, <<0, 4, 5>>, <<1, 5, 6>>, <<1, 6, 2>>,
       <<2, 6, 7>>, <<2, 7, 3>>, <<3, 7, 4>>, <<3, 4, 0>>, <<4, 6, 5>>, <<4, 7, 6>> >>

\* vertices.resize(n) and vertices.reserve(n) with an int n: a negative n
\* converts to a size above max_size() and the call throws.
Throws(n) == n < 0

\* What the bodies of setBox .. setCone and generateBox .. generateCone do to
\* mesh m once the arguments are accepted: setVertices(new SgVertexArray())
\* filled with n vertices of which vs bound the box, the triangles, the
\* primitive, updateBoundingBox(). (The normals MeshNormalGenerator writes
\* are read by no operation here.)
FillMesh(h, m, n, vs, triangles, prim) ==
    LET r == New(h, "SgVertexArray")
    IN  IF Failed(r.h) THEN r.h
        ELSE LET h1 == SetSlot([r.h EXCEPT !.content[r.ret] = n], m, "vertices",
                               r.ret)
             IN  [h1 EXCEPT !.triangleVertices_[m] = triangles,
                            !.primitive_[m] = prim,
                            !.bbox[m] = updateBoundingBox(vs)]

\* setBox that replaces the vertices before it looks at the size.
SgMesh_setBoxLateCheck(h, m, size) ==
    LET h1 == FillMesh(h, m, 8, SetBoxVertices(size), BoxTriangles, <<"BOX", size>>)
    IN  [h |-> h1, ret |-> ~(size[1] < 0 \/ size[2] < 0 \/ size[3] < 0)]

\* SgMesh::setBox
SgMesh_setBox(h, m, size) ==
    IF size[1] < 0 \/ size[2] < 0 \/ size[3] < 0 THEN [h |-> h, ret |-> FALSE]
    ELSE [h |-> FillMesh(h, m, 8, SetBoxVertices(size), BoxTriangles, <<"BOX", size>>),
          ret |-> TRUE]

\* setVertices(new SgVertexArray()) followed by a resize or reserve that
\* throws: the mesh has the new, empty array and is otherwise as it was.
ThrowAfterSetVertices(h, m) ==
    LET r == New(h, "SgVertexArray")
    IN  IF Failed(r.h) THEN r.h
        ELSE [SetSlot(r.h, m, "vertices", r.ret) EXCEPT !.thrown = TRUE]

\* The body of setSphere / generateSphere: the rings of hdn vertices for
\* i = 1 .. vdn - 1, the top and the bottom vertex; the top faces, the side
\* faces between the rings, the bottom faces.
FillSphere(h, m, radius, div) ==
    LET vdn == div \div 2
        hdn == div
        topIndex == LoopCount(vdn - 1) * LoopCount(hdn)
        bottomIndex == topIndex + 1
        offset == (vdn - 2) * hdn
        Top(i) == << <<topIndex, (i + 1) % hdn, i>> >>
        Side(i) ==
            LET upper == i * hdn
                lower == (i + 1) * hdn
                Pair(j) == << <<j + upper, ((j + 1) % hdn) + lower, j + lower>>,
                              <<j + upper, ((j + 1) % hdn) + upper,
                                ((j + 1) % hdn) + lower>> >>
            IN  TrianglesOfLoop(Pair, 0, hdn)
        Bottom(i) == << <<bottomIndex, (i % hdn) + offset, ((i + 1) % hdn) + offset>> >>
    IN  FillMesh(h, m, bottomIndex + 1,
                 RingVertices(radius, 0, div)
                     \o << <<0, radius, 0>>, <<0, -radius, 0>> >>,
                 TrianglesOfLoop(Top, 0, hdn) \o TrianglesOfLoop(Side, 0, vdn - 2)
                     \o TrianglesOfLoop(Bottom, 0, hdn),
                 <<"SPHERE", radius>>)

\* SgMesh::setSphere
SgMesh_setSphere(h, m, radius, divisionNumber) ==
    IF radius < 0 \/ divisionNumber < 4 THEN [h |-> h, ret |-> FALSE]
    ELSE [h |-> FillSphere(h, m, radius, divisionNumber), ret |-> TRUE]

\* The body of setCylinder / generateCylinder (height even): resize(div * 2),
\* the two rings, the two centres; per division the top face, the two side
\* faces and the bottom face that are asked for.
FillCylinder(h, m, radius, height, bottom, side, top, div) ==
    LET y == height \div 2
        topCenterIndex == div * 2
        bottomCenterIndex == topCenterIndex + 1
        Faces(i) ==
            (IF top THEN << <<topCenterIndex, (i + 1) % div, i>> >> ELSE <<>>)
            \o (IF side
                THEN << <<i, ((i + 1) % div) + div, i + div>>,
                        <<i, (i + 1) % div, ((i + 1) % div) + div>> >>
                ELSE <<>>)
            \o (IF bottom
                THEN << <<bottomCenterIndex, i + div, ((i + 1) % div) + div>> >>
                ELSE <<>>)
    IN  IF Throws(div * 2) THEN ThrowAfterSetVertices(h, m)
        ELSE FillMesh(h, m, bottomCenterIndex + 1,
                      RingVertices(radius, y, div) \o RingVertices(radius, -y, div)
                          \o << <<0, y, 0>>, <<0, -y, 0>> >>,
                      TrianglesOfLoop(Faces, 0, div),
                      <<"CYLINDER", radius, height>>)

\* SgMesh::setCylinder
SgMesh_setCylinder(h, m, radius, height, bottom, side, top, divisionNumber) ==
    IF height < 0 \/ radius < 0 THEN [h |-> h, ret |-> FALSE]
    ELSE [h |-> FillCylinder(h, m, radius, height, bottom, side, top,
                             divisionNumber),
          ret |-> TRUE]

\* The body of setCone / generateCone (height even): reserve(div + 1), the
\* ring pushed back, the top and the bottom centre; per division the side
\* face and the bottom face that are asked for.
FillCone(h, m, radius, height, bottom, side, div) ==
    LET y == height \div 2
        topIndex == LoopCount(div)
        bottomCenterIndex == topIndex + 1
        Faces(i) ==
            (IF side THEN << <<topIndex, (i + 1) % div, i>> >> ELSE <<>>)
            \o (IF bottom THEN << <<bottomCenterIndex, i, (i + 1) % div>> >> ELSE <<>>)
    IN  IF Throws(div + 1) THEN ThrowAfterSetVertices(h, m)
        ELSE FillMesh(h, m, bottomCenterIndex + 1,
                      RingVertices(radius, -y, div) \o << <<0, y, 0>>, <<0, -y, 0>> >>,
                      TrianglesOfLoop(Faces, 0, div), <<"CONE", radius, height>>)

\* SgMesh::setCone
SgMesh_setCone(h, m, radius, height, bottom, side, divisionNumber) ==
    IF radius < 0 \/ height < 0 THEN [h |-> h, ret |-> FALSE]
    ELSE [h |-> FillCone(h, m, radius, height, bottom, side, divisionNumber),
          ret |-> TRUE]

\* MeshGenerator::generateBox
MeshGenerator_generateBox(h, size) ==
    IF size[1] < 0 \/ size[2] < 0 \/ size[3] < 0 THEN [h |-> h, ret |-> Null]
    ELSE LET r == New(h, "SgMesh")
         IN  IF Failed(r.h) THEN r
             ELSE [h |-> FillMesh(r.h, r.ret, 8, SetBoxVertices(size), BoxTriangles,
                                  <<"BOX", size>>),
                   ret |-> r.ret]

\* MeshGenerator::generateSphere
MeshGenerator_generateSphere(h, radius) ==
    IF radius < 0 \/ h.divisionNumber_ < 4 THEN [h |-> h, ret |-> Null]
    ELSE LET r == New(h, "SgMesh")
         IN  IF Failed(r.h) THEN r
             ELSE [h |-> FillSphere(r.h, r.ret, radius, h.divisionNumber_),
                   ret |-> r.ret]

\* MeshGenerator::generateCylinder
MeshGenerator_generateCylinder(h, radius, height, bottom, side, top) ==
    IF height < 0 \/ radius < 0 THEN [h |-> h, ret |-> Null]
    ELSE LET r == New(h, "SgMesh")
         IN  IF Failed(r.h) THEN r
             ELSE [h |-> FillCylinder(r.h, r.ret, radius, height, bottom, side,
                                      top, h.divisionNumber_),
                   ret |-> r.ret]

\* MeshGenerator::generateCone
MeshGenerator_generateCone(h, radius, height, bottom, side) ==
    IF radius < 0 \/ height < 0 THEN [h |-> h, ret |-> Null]
    ELSE LET r == New(h, "SgMesh")
         IN  IF Failed(r.h) THEN r
             ELSE [h |-> FillCone(r.h, r.ret, radius, height, bottom, side,
                                  h.divisionNumber_),
                   ret |-> r.ret]

\* MeshGenerator::setDivisionNumber
MeshGenerator_setDivisionNumber(h, n) == [h EXCEPT !.divisionNumber_ = n]

\* A call of an operation that allocates at most n objects, made while that
\* leaves no more than MaxLive objects alive (the objects a setter replaces
\* stay with the caller that holds them).
Call(r, n, name, o, arg) ==
    /\ ~hung
    /\ Cardinality(Live) + n <= MaxLive
    /\ Commit(r.h, Op(name, o, arg, FALSE, r.ret))

\* The operations on mesh 4 of the scene and on the generator, with sizes
\* with and without a negative extent and the division numbers 2 (too few
\* for a sphere), 4 and the default.
NextMesh ==
    LET BoxSizes ==
            {<<2, 2, 2>>, <<4, 2, 2>>, <<-2, 2, 2>>, <<2, -2, 2>>, <<2, 2, -2>>}
        Radii == {-1, 0, 1}
        Heights == {-2, 2}
        DivisionNumbers == {2, 4}
    IN  \/ \E size \in BoxSizes :
              Call(SgMesh_setBox(Heap, 4, size), 1, "setBox", 4, size)
        \/ \E radius \in Radii, div \in DivisionNumbers :
              Call(SgMesh_setSphere(Heap, 4, radius, div), 1, "setSphere", 4,
                   <<radius, div>>)
        \/ \E radius \in Radii, height \in Heights, bottom \in BOOLEAN,
              div \in DivisionNumbers :
              Call(SgMesh_setCylinder(Heap, 4, radius, height, bottom, TRUE, TRUE,
                                      div),
                   1, "setCylinder", 4, <<radius, height>>)
        \/ \E radius \in Radii, height \in Heights, bottom \in BOOLEAN,
              div \in DivisionNumbers :
              Call(SgMesh_setCone(Heap, 4, radius, height, bottom, TRUE, div), 1,
                   "setCone", 4, <<radius, height>>)
        \/ \E size \in BoxSizes :
              Call(MeshGenerator_generateBox(Heap, size), 2, "generateBox", Null,
                   size)
        \/ \E radius \in Radii :
              Call(MeshGenerator_generateSphere(Heap, radius), 2,
                   "generateSphere", Null, <<radius, divisionNumber_>>)
        \/ \E radius \in Radii, height \in Heights, bottom \in BOOLEAN :
              Call(MeshGenerator_generateCylinder(Heap, radius, height, bottom,
                                                  TRUE, TRUE),
                   2, "generateCylinder", Null, <<radius, height>>)
        \/ \E radius \in Radii, height \in Heights, bottom \in BOOLEAN :
              Call(MeshGenerator_generateCone(Heap, radius, height, bottom, TRUE),
                   2, "generateCone", Null, <<radius, height>>)
        \/ \E n \in DivisionNumbers \cup {DefaultDivisionNumber} :
              Call([h |-> MeshGenerator_setDivisionNumber(Heap, n), ret |-> Null],
                   0, "setDivisionNumber", Null, n)

SpecMesh == Init /\ [][NextMesh]_vars

\* ------------------------------------------------------- reference slots

\* The class of the objects a reference slot takes. The vertices, the normals
\* and the colors are arrays of one class, so that one array can be held in
\* several slots of one mesh.
SlotKind(name) ==
    CASE name \in {"vertices", "normals", "colors"} -> "SgVertexArray"
      [] name = "texCoords" -> "SgTexCoordArray"
      [] name = "mesh" -> "SgMesh"
      [] name = "material" -> "SgMaterial"
      [] name = "texture" -> "SgTexture"
      [] name = "image" -> "SgImage"
      [] name = "textureTransform" -> "SgTextureTransform"

\* SgShape::getOrCreateMesh, getOrCreateMaterial, getOrCreateTexture,
\* SgMeshBase::getOrCreateVertices, getOrCreateNormals, getOrCreateColors, ...
GetOrCreate(h, holder, name) ==
    IF h.slot[holder][name] = Null
    THEN LET r == New(h, SlotKind(name))
         IN  IF Failed(r.h) THEN r
             ELSE [h |-> SetSlot(r.h, holder, name, r.ret), ret |-> r.ret]
    ELSE [h |-> h, ret |-> h.slot[holder][name]]

\* The setters and the getOrCreate functions of the shape (3) and of its mesh
\* (4), called with null, with the object the slot holds and with any other
\* object of the class of the slot.
NextSlots ==
    \/ \E holder \in {3, 4}, name \in SlotNames, p \in Obj \cup {Null} :
          /\ name \in DOMAIN slot[holder]
          /\ p # Null => kind[p] = SlotKind(name)
          /\ Call([h |-> SetSlot(Heap, holder, name, p), ret |-> p], 0, "set",
                  holder, <<name, p>>)
    \/ \E holder \in {3, 4}, name \in {"mesh", "normals", "colors"} :
          /\ name \in DOMAIN slot[holder]
          /\ Call(GetOrCreate(Heap, holder, name), 1, "getOrCreate", holder,
                  <<name>>)

SpecSlots == Init /\ [][NextSlots]_vars

\* ----------------------------------------------------------------- SgImage

\* SgImage::SgImage(): image_(make_shared<Image>())
SgImage_new(h) ==
    LET r == New(h, "SgImage")
        b == IF Failed(r.h) THEN r ELSE New(r.h, "Image")
    IN  IF Failed(b.h) THEN b
        ELSE [h |-> [b.h EXCEPT !.image_[r.ret] = b.ret], ret |-> r.ret]

\* image_.use_count(): the SgImage objects that share the Image
use_count(h, b) == Cardinality({o \in Obj : h.image_[o] = b})

\* image() that hands out the Image whoever shares it.
SgImage_imageInPlace(h, o) == [h |-> h, ret |-> h.image_[o]]

\* SgImage::image(): image_ = make_shared<Image>(*image_) when use_count() > 1
SgImage_image(h, o) ==
    IF use_count(h, h.image_[o]) > 1
    THEN LET r == New(h, "Image")
         IN  IF Failed(r.h) THEN r
             ELSE [h |-> [r.h EXCEPT !.content[r.ret] = h.content[h.image_[o]],
                                     !.image_[o] = r.ret],
                   ret |-> r.ret]
    ELSE [h |-> h, ret |-> h.image_[o]]

\* SgImage::pixels(), the same test and copy
SgImage_pixels(h, o) == SgImage_image(h, o)

\* A write of v through the reference or pointer an accessor returned.
Written(r, v) ==
    IF Failed(r.h) THEN r ELSE [h |-> [r.h EXCEPT !.content[r.ret] = v], ret |-> r.ret]

\* SgImage::setSize: image().setSize(width, height)
SgImage_setSize(h, o, size) == Written(SgImage_image(h, o), size)

InitImage ==
    Constructed([o \in Obj |-> "free"], [o \in Obj |-> <<>>],
                [o \in Obj |-> NoSlots("free")], [o \in Obj |-> EmptyBox], FALSE)

\* Images are made, copied by clone() and written through image(), pixels()
\* and setSize.
NextImage ==
    \/ Call(SgImage_new(Heap), 2, "SgImage", Null, Null)
    \/ \E o \in Obj :
          /\ kind[o] = "SgImage"
          /\ \/ Call(CloneObject(Heap, o, {}), 1, "clone", o, Null)
             \/ \E v \in {1, 2} :
                   Call(Written(SgImage_image(Heap, o), v), 1, "image", o, v)
             \/ \E v \in {1, 2} :
                   Call(Written(SgImage_pixels(Heap, o), v), 1, "pixels", o, v)
             \/ \E v \in {1, 2} :
                   Call(SgImage_setSize(Heap, o, v), 1, "setSize", o, v)

SpecImage == InitImage /\ [][NextImage]_vars

\* ---------------------------------------------------------------- visitors

\* The virtual accept(SceneVisitor&) of node o: the calls it makes on the
\* visitor, in order.
SgNode_accept(h, o) ==
    LET k == h.kind[o]
        visit(m) == <<[method |-> m, node |-> o]>>
    IN  CASE k = "SgNode" -> visit("visitNode")
          [] k = "SgGroup" -> visit("visitGroup")
          [] k = "SgInvariantGroup" -> visit("visitInvariantGroup")
          [] k = "SgPosTransform" -> visit("visitPosTransform")
          [] k = "SgScaleTransform" -> visit("visitScaleTransform")
          [] k = "SgUnpickableGroup" -> visit("visitUnpickableGroup")
          [] k = "SgShape" -> visit("visitShape")
          [] k = "SgPointSet" -> visit("visitPointSet")
          [] k = "SgLineSet" -> visit("visitLineSet")
          [] k = "SgPreprocessed" -> visit("visitPreprocessed")
          [] k \in {"SgLight", "SgDirectionalLight", "SgPointLight", "SgSpotLight"} ->
                visit("visitLight")
          [] k \in {"SgCamera", "SgPerspectiveCamera", "SgOrthographicCamera"} ->
                visit("visitCamera")
          [] k = "SgFog" -> <<>>
          [] k = "SgOverlay" -> visit("visitOverlay")

\* Two nodes of any two kinds.
InitVisit ==
    \E k1 \in NodeKinds, k2 \in NodeKinds :
        Constructed([o \in Obj |-> CASE o = 1 -> k1 [] o = 2 -> k2 [] OTHER -> "free"],
                    [o \in Obj |-> <<>>],
                    [o \in Obj |-> CASE o = 1 -> NoSlots(k1) [] o = 2 -> NoSlots(k2)
                                     [] OTHER -> NoSlots("free")],
                    [o \in Obj |-> EmptyBox], FALSE)

NextVisit ==
    \E o \in Nodes :
        Call([h |-> Heap, ret |-> SgNode_accept(Heap, o)], 0, "accept", o, Null)

SpecVisit == InitVisit /\ [][NextVisit]_vars

\* ----------------------------------------------------------------- overlays

\* The chain Root -> Overlay -> Shape.
InitOverlay ==
    Constructed([SceneKind EXCEPT ![2] = "SgOverlay"], [o \in Obj |-> <<>>],
                SceneSlot, SceneBoxes, FALSE)

SpecOverlay == InitOverlay /\ [][NextBBox]_vars

\* -------------------------------------------------------------------- Item

RECURSIVE ItemAncestors(_, _)
\* The items of S and the items above them on the parent_ links
ItemAncestors(par, S) ==
    LET T == S \cup ({par[x] : x \in S} \ {Null})
    IN  IF T = S THEN S ELSE ItemAncestors(par, T)

\* The loop while(current->parent_) of Item::findRootItem and the recursion
\* of addToItemsToEmitSigSubTreeChangedSub, started at item, never end: no
\* item on the parent_ links from item is without parent.
ParentWalkDiverges(par, item) ==
    \A x \in ItemAncestors(par, {item}) : par[x] # Null

\* Item::detachFromParentItemSub (no item here is a RootItem, so that the
\* notifications of the root item are not made)
Item_detachFromParentItemSub(h, item) ==
    LET p == h.parent_[item]
        L == h.itemLinks
        prev == L[item].prevItem_
        next == L[item].nextItem_
        L1 == IF prev # Null THEN [L EXCEPT ![prev].nextItem_ = next]
              ELSE [L EXCEPT ![p].firstChild_ = next]
        L2 == IF next # Null THEN [L1 EXCEPT ![next].prevItem_ = prev]
              ELSE [L1 EXCEPT ![p].lastChild_ = prev]
        L3 == [[L2 EXCEPT ![item].prevItem_ = Null] EXCEPT ![item].nextItem_ = Null]
        L4 == [[L3 EXCEPT ![p].numChildren_ = @ - 1] EXCEPT ![item].refCount = @ - 1]
        h1 == IF p # Null THEN [h EXCEPT !.itemLinks = L4, !.parent_[item] = Null]
              ELSE h
    IN  IF ParentWalkDiverges(h.parent_, item) THEN [h EXCEPT !.diverged = TRUE]
        ELSE [h1 EXCEPT !.attributes[item] = @ \ {"SUB_ITEM"}]

\* The branch of doInsertChildItem for nextItem a child of this: item is
\* linked in before nextItem.
LinkBefore(L, this, item, nextItem) ==
    LET prevItem == L[nextItem].prevItem_
        L1 == IF prevItem # Null
              THEN [[L EXCEPT ![prevItem].nextItem_ = item]
                       EXCEPT ![item].prevItem_ = prevItem]
              ELSE [[L EXCEPT ![this].firstChild_ = item]
                       EXCEPT ![item].prevItem_ = Null]
    IN  [[L1 EXCEPT ![nextItem].prevItem_ = item] EXCEPT ![item].nextItem_ = nextItem]

\* The other branches: item is linked in after lastChild_, or as the only
\* child.
LinkLast(L, this, item) ==
    LET last == L[this].lastChild_
    IN  IF last # Null
        THEN [[[[L EXCEPT ![last].nextItem_ = item]
                   EXCEPT ![item].prevItem_ = last]
                   EXCEPT ![item].nextItem_ = Null]
                   EXCEPT ![this].lastChild_ = item]
        ELSE [[L EXCEPT ![this].firstChild_ = item] EXCEPT ![this].lastChild_ = item]

\* Item::doInsertChildItem; accepted is what the virtual
\* onChildItemAboutToBeAdded of this returns.
Item_doInsertChildItem(h, this, item, nextItem, isManualOperation, accepted) ==
    IF ~accepted THEN [h |-> h, ret |-> FALSE]
    ELSE LET h1 == IF "SUB_ITEM" \notin h.attributes[item]
                   THEN [h EXCEPT !.attributes[this] = @ \ {"TEMPORAL"}] ELSE h
             h2 == IF h1.parent_[item] # Null
                   THEN Item_detachFromParentItemSub(h1, item) ELSE h1
             h3 == [h2 EXCEPT !.parent_[item] = this]
             L == IF nextItem # Null /\ h3.parent_[nextItem] = this
                  THEN LinkBefore(h3.itemLinks, this, item, nextItem)
                  ELSE LinkLast(h3.itemLinks, this, item)
             h4 == [h3 EXCEPT !.itemLinks =
                       [[L EXCEPT ![this].numChildren_ = @ + 1]
                           EXCEPT ![item].refCount = @ + 1]]
         IN  IF \/ ParentWalkDiverges(h1.parent_, this)
                \/ h2.diverged
                \/ ParentWalkDiverges(h4.parent_, this)
             THEN [h |-> [h EXCEPT !.diverged = TRUE], ret |-> TRUE]
             ELSE [h |-> h4, ret |-> TRUE]

\* Item::addSubItem (nextItem null) and Item::insertSubItem
Item_insertSubItem(h, this, item, nextItem, accepted) ==
    Item_doInsertChildItem([h EXCEPT !.attributes[item] = @ \cup {"SUB_ITEM"}],
                           this, item, nextItem, FALSE, accepted)

\* Three items, as Item::init leaves them.
InitItem ==
    Constructed([o \in Obj |-> IF o \in 1 .. 3 THEN "Item" ELSE "free"],
                [o \in Obj |-> <<>>], [o \in Obj |-> NoSlots("free")],
                [o \in Obj |-> EmptyBox], FALSE)

\* Items 2 and 3 are attached below item 1 or 2, item 2 below itself
\* included, as child items (addChildItem has nextItem null) or as sub items,
\* at the end or before item 3, item 3 before itself included; they are
\* detached, and items 1 and 2 are marked temporal.
NextItem ==
    \/ \E this \in {1, 2}, item \in {2, 3}, nextItem \in {Null, 3},
          isManualOperation \in BOOLEAN, accepted \in BOOLEAN :
          Call(Item_doInsertChildItem(Heap, this, item, nextItem,
                                      isManualOperation, accepted),
               0, "insertChildItem", this, <<item, nextItem, isManualOperation>>)
    \/ \E this \in {1, 2}, item \in {2, 3}, nextItem \in {Null, 3},
          accepted \in BOOLEAN :
          Call(Item_insertSubItem(Heap, this, item, nextItem, accepted), 0,
               "insertSubItem", this, <<item, nextItem, FALSE>>)
    \/ \E item \in {2, 3} :
          Call([h |-> Item_detachFromParentItemSub(Heap, item), ret |-> Null], 0,
               "detachFromParentItem", item, Null)
    \/ \E this \in {1, 2}, on \in BOOLEAN :
          Call([h |-> [Heap EXCEPT !.attributes[this] =
                                       IF on THEN @ \cup {"TEMPORAL"}
                                       ELSE @ \ {"TEMPORAL"}],
                ret |-> Null],
               0, "setTemporal", this, on)

SpecItem == InitItem /\ [][NextItem]_vars

\* -------------------------------------------------------------- destruction

RECURSIVE RemoveOwnerOfEach(_, _, _)
\* The loop of ~SgGroup: (*p)->removeOwner(this) for every child
RemoveOwnerOfEach(h, cs, g) ==
    IF cs = <<>> THEN h
    ELSE RemoveOwnerOfEach(SgObject_removeOwner(h, Head(cs), g), Tail(cs), g)

\* delete o, as the release of its last reference does: ~SgGroup for a group;
\* the other classes have no destructor of their own, their members let go of
\* what they refer to and no more. What o referred to is held elsewhere
\* and survives.
Delete(h, o) ==
    LET h1 == IF h.kind[o] \in GroupKinds
              THEN RemoveOwnerOfEach(h, h.children[o], o) ELSE h
    IN  [h1 EXCEPT !.kind[o] = "destroyed"]

\* The scene is built and taken apart, and an object that no live object
\* refers to any more is destroyed.
NextDestroy ==
    \/ \E g \in Groups : \E node \in Attachable(g) \cap Nodes :
          addChild(g, node, FALSE)
    \/ \E g \in Groups : \E node \in Attachable(g) \cap Nodes :
          removeChild(g, node, FALSE)
    \/ \E g \in Groups : clearChildren(g, FALSE)
    \/ \E o \in {1, 2, 3} :
          /\ kind[o] \in NodeKinds
          /\ {g \in Obj : /\ kind[g] \notin {"free", "destroyed"}
                           /\ Refs(children, slot, g, o) > 0} = {}
          /\ Call([h |-> Delete(Heap, o), ret |-> Null], 0, "delete", o, Null)

SpecDestroy == Init /\ [][NextDestroy]_vars

\* ------------------------------------------- the walk and its descriptor

\* SgGroup::transferUpdate and the head of SgObject::transferUpdate for
\* object o: the invalidation, update.push(this) and sigUpdated_(update), the
\* signal of object s having a slot that calls boundingBox() on group t (no
\* such slot when s is Null). w is the heap with the path of the descriptor.
TransferUpdateEnter(w, o, action, s, t) ==
    LET h1 == IF w.h.kind[o] \in GroupKinds
              THEN SgGroup_transferUpdate(w.h, o, action) ELSE w.h
        p == Append(w.path, o)
        h2 == [h1 EXCEPT !.sigUpdated = Append(@, p),
                         !.updateSeen = Append(@, Seen(h1, p[1], action))]
        r == BoundingBoxCall(h2, t, {})
    IN  [h |-> IF o = s THEN [r.h EXCEPT !.diverged = r.diverged] ELSE h2,
         path |-> p]

\* The end of SgObject::transferUpdate without update.pop().
TransferUpdateLeaveNoPop(w) == w

\* The end of SgObject::transferUpdate: update.pop()
TransferUpdateLeave(w) == [w EXCEPT !.path = SubSeq(@, 1, Len(@) - 1)]

RECURSIVE TransferUpdate(_, _, _, _, _)
RECURSIVE TransferUpdateOwners(_, _, _, _, _)

\* transferUpdate(update), the virtual call on object o
TransferUpdate(w, o, action, s, t) ==
    LET w1 == TransferUpdateEnter(w, o, action, s, t)
    IN  TransferUpdateLeave(TransferUpdateOwners(w1, w1.h.owners[o], action, s, t))

TransferUpdateOwners(w, os, action, s, t) ==
    IF os = <<>> THEN w
    ELSE TransferUpdateOwners(TransferUpdate(w, Head(os), action, s, t),
                              Tail(os), action, s, t)

\* notifyUpdate(update) on object o with a descriptor of empty path: the heap
\* and the path the walk leaves.
NotifyUpdateWithSlot(h, o, action, s, t) ==
    IF UpCyclic(h.owners, o) THEN [h |-> [h EXCEPT !.diverged = TRUE], path |-> <<>>]
    ELSE TransferUpdate([h |-> h, path |-> <<>>], o, action, s, t)

RECURSIVE RemoveChildWithSlot(_, _, _, _, _, _, _)
\* The loop of SgGroup::removeChild(node, true) from position i on, with
\* the slot connected.
RemoveChildWithSlot(h, g, node, i, s, t, removed) ==
    IF i > Len(h.children[g]) THEN [h |-> h, ret |-> removed]
    ELSE IF h.children[g][i] = node
         THEN LET h1 == NotifyUpdateWithSlot(h, node, "REMOVED", s, t).h
                  h2 == [h1 EXCEPT !.children[g] = EraseAt(@, i)]
              IN  RemoveChildWithSlot(SgObject_removeOwner(h2, node, g), g, node, i,
                                      s, t, TRUE)
         ELSE RemoveChildWithSlot(h, g, node, i + 1, s, t, removed)

\* The scene built up and taken apart, the boxes read, and notifyUpdate and
\* removeChild(node, true) run while a slot of the updated signal of a group
\* reads the box of that group or of one of its ancestors.
NextWalk ==
    \/ \E g \in Groups : \E node \in Attachable(g) : addChild(g, node, FALSE)
    \/ \E g \in Groups : boundingBox(g)
    \/ \E o \in {3, 5}, action \in UpdateActions :
          \E s \in Groups : \E t \in Ancestors(owners, s) \cap Groups :
             /\ ~hung
             /\ LET w == NotifyUpdateWithSlot(Heap, o, action, s, t)
                IN  Commit(w.h, Op("notifyUpdate", o, <<action, s, t>>, TRUE, w.path))
    \/ \E g \in Groups : \E node \in Attachable(g) :
          \E s \in Groups : \E t \in Ancestors(owners, s) \cap Groups :
             /\ ~hung
             /\ LET r == RemoveChildWithSlot(Heap, g, node, 1, s, t, FALSE)
                IN  Commit(r.h, Op("removeChild", g, <<node, s, t>>, TRUE, r.ret))

SpecWalk == Init /\ [][NextWalk]_vars

\* ------------------------------------------- primitives of any division

\* How a primitive call ended: by an exception, with the value that refuses
\* the arguments, or with a mesh filled.
Outcome(r, refusal) ==
    IF r.h.thrown THEN "exception" ELSE IF r.ret = refusal THEN "refused" ELSE "accepted"

\* The primitives of radius 1 and height 2 set on mesh 4 of the scene and
\* generated, with division numbers below, at and above zero, with and
\* without the bottom and side faces.
NextPrimitive ==
    LET DivisionNumbers == {-2, -1, 0, 1, 2, 4, 8}
    IN  \/ /\ ~hung /\ Cardinality(Live) + 1 <= MaxLive
           /\ LET r == SgMesh_setBox(Heap, 4, <<2, 2, 2>>)
              IN  Commit(r.h, Op("setBox", 4, 0, FALSE, Outcome(r, FALSE)))
        \/ \E div \in DivisionNumbers :
              /\ ~hung /\ Cardinality(Live) + 1 <= MaxLive
              /\ LET r == SgMesh_setSphere(Heap, 4, 1, div)
                 IN  Commit(r.h, Op("setSphere", 4, div, FALSE, Outcome(r, FALSE)))
        \/ \E div \in DivisionNumbers, bottom \in BOOLEAN, side \in BOOLEAN :
              /\ ~hung /\ Cardinality(Live) + 1 <= MaxLive
              /\ LET r == SgMesh_setCylinder(Heap, 4, 1, 2, bottom, side, TRUE, div)
                 IN  Commit(r.h, Op("setCylinder", 4, div, FALSE, Outcome(r, FALSE)))
        \/ \E div \in DivisionNumbers, bottom \in BOOLEAN, side \in BOOLEAN :
              /\ ~hung /\ Cardinality(Live) + 1 <= MaxLive
              /\ LET r == SgMesh_setCone(Heap, 4, 1, 2, bottom, side, div)
                 IN  Commit(r.h, Op("setCone", 4, div, FALSE, Outcome(r, FALSE)))
        \/ \E div \in DivisionNumbers :
              /\ ~hung
              /\ Commit(MeshGenerator_setDivisionNumber(Heap, div),
                        Op("setDivisionNumber", Null, div, FALSE, "accepted"))
        \/ /\ ~hung /\ Cardinality(Live) + 2 <= MaxLive
           /\ LET r == MeshGenerator_generateSphere(Heap, 1)
              IN  Commit(r.h, Op("generateSphere", r.ret, divisionNumber_, FALSE,
                                 Outcome(r, Null)))
        \/ \E bottom \in BOOLEAN :
              /\ ~hung /\ Cardinality(Live) + 2 <= MaxLive
              /\ LET r == MeshGenerator_generateCylinder(Heap, 1, 2, bottom, TRUE, TRUE)
                 IN  Commit(r.h, Op("generateCylinder", r.ret, divisionNumber_, FALSE,
                                    Outcome(r, Null)))
        \/ \E bottom \in BOOLEAN :
              /\ ~hung /\ Cardinality(Live) + 2 <= MaxLive
              /\ LET r == MeshGenerator_generateCone(Heap, 1, 2, bottom, TRUE)
                 IN  Commit(r.h, Op("generateCone", r.ret, divisionNumber_, FALSE,
                                    Outcome(r, Null)))

SpecPrimitive == Init /\ [][NextPrimitive]_vars

\* --------------------------------------------------------------- WorldItem

\* WorldItem::doDuplicate: WorldItem(const WorldItem&) and
\* WorldItemImpl(WorldItem*, const WorldItemImpl&)
WorldItem_doDuplicate(h, org) ==
    LET r == New(h, "WorldItem")
    IN  IF Failed(r.h) THEN r
        ELSE [h |-> [r.h EXCEPT
                        !.impl[r.ret] =
                            [isCollisionDetectionEnabled |->
                                 h.impl[org].isCollisionDetectionEnabled,
                             sigItemTreeChangedConnection |-> FALSE]],
              ret |-> r.ret]

\* WorldItemImpl::updateCollisionDetector and the updateCollisions(true) it
\* ends with, for a world whose body items are those of the last update: the
\* number of emissions of sigCollisionsUpdated.
WorldItemImpl_updateCollisionDetector(h, w, forceUpdate) ==
    IF ~h.impl[w].isCollisionDetectionEnabled THEN 0
    ELSE IF ~forceUpdate THEN 0
    ELSE 1

\* WorldItemImpl::enableCollisionDetection: the state it leaves and the
\* number of emissions of notifyUpdate and of sigCollisionsUpdated.
WorldItemImpl_enableCollisionDetection(h, w, on) ==
    LET enabled == h.impl[w].isCollisionDetectionEnabled
    IN  IF enabled /\ ~on
        THEN [h |-> [h EXCEPT !.impl[w] =
                        [isCollisionDetectionEnabled |-> FALSE,
                         sigItemTreeChangedConnection |-> FALSE]],
              ret |-> [notifyUpdate |-> 1, sigCollisionsUpdated |-> 1]]
        ELSE IF ~enabled /\ on
        THEN LET h1 == [h EXCEPT !.impl[w].isCollisionDetectionEnabled = TRUE]
                 n == WorldItemImpl_updateCollisionDetector(h1, w, TRUE)
             IN  [h |-> [h1 EXCEPT !.impl[w].sigItemTreeChangedConnection = TRUE],
                  ret |-> [notifyUpdate |-> 1, sigCollisionsUpdated |-> n + 1]]
        ELSE [h |-> h, ret |-> [notifyUpdate |-> 0, sigCollisionsUpdated |-> 0]]

WorldItems == {o \in Obj : kind[o] = "WorldItem"}

\* One world item with three items below the root, collision detection
\* switched on and off and the world items duplicated.
NextWorld ==
    \/ \E w \in WorldItems, on \in BOOLEAN :
          Call(WorldItemImpl_enableCollisionDetection(Heap, w, on), 0,
               "enableCollisionDetection", w, on)
    \/ \E w \in WorldItems :
          Call(WorldItem_doDuplicate(Heap, w), 1, "doDuplicate", w, Null)

SpecWorld ==
    /\ Constructed([o \in Obj |-> IF o = 1 THEN "WorldItem"
                                  ELSE IF o \in 2 .. 4 THEN "Item" ELSE "free"],
                   [o \in Obj |-> <<>>], [o \in Obj |-> NoSlots("free")],
                   [o \in Obj |-> EmptyBox], FALSE)
    /\ [][NextWorld]_vars

\* ------------------------------------------------------------------ claims

\* C1: for every group G and node N, N occurs in G's child list if and only
\* if G is in N's owner set, after any sequence of addChild, removeChild,
\* removeChildAt and clearChildren.
OwnerChildSymmetry ==
    \A g \in Groups, n \in Nodes :
        SgGroup_contains(Heap, g, n) <=> g \in OwnerSet(owners[n])

\* C2: boundingBox() of a group returns the union of the boundingBox() results
\* of its current children, under the group's own transform.
BoundingBoxIsUnionOfChildren ==
    ~hung =>
        \A g \in Groups :
            BoundingBoxCall(Heap, g, {}).box
                = TransformOwn(Heap, g,
                               ExpandByChildren(Heap, children[g], EmptyBox, {}).box)

\* C3: every operation that changes a group's child list leaves that group's
\* bounding-box cache invalid, with or without notification.
MutationInvalidatesCache ==
    [][\A g \in Groups :
          children'[g] # children[g] => ~isBboxCacheValid'[g]]_vars

\* C4: when notifyUpdate on X has returned, every group among X and its
\* transitive owners has an invalid cache, whatever the action tag.
NotifyInvalidatesOwners ==
    (lastOp.op = "notifyUpdate" /\ ~hung) =>
        \A g \in Ancestors(owners, lastOp.obj) \cap Groups : ~isBboxCacheValid[g]

\* C4 witness: a notification tagged MODIFIED from the vertex array reached
\* the transform and the root, both holding a box computed earlier.
NotifyInvalidatesOwnersWitness ==
    /\ lastOp.op = "notifyUpdate" /\ lastOp.arg = "MODIFIED" /\ lastOp.obj = 5
    /\ {1, 2} \subseteq Ancestors(owners, 5)
    /\ bboxCache[1] # EmptyBox /\ bboxCache[2] # EmptyBox
    /\ ~isBboxCacheValid[1] /\ ~isBboxCacheValid[2]

\* C9: addOwner on an object without owner fires the connectivity signal
\* exactly once, with true; the removeOwner that removes the last owner fires
\* it exactly once, with false.
ConnectivityOnFirstAndLast ==
    \A i \in 1 .. Len(ownerCalls) :
        LET c == ownerCalls[i]
        IN  /\ (c.op = "addOwner" /\ c.before = 0) => c.fired = <<TRUE>>
            /\ (c.op = "removeOwner" /\ c.before > 0 /\ c.after = 0)
                   => c.fired = <<FALSE>>

\* C9 witness: a removeChild that took the last owner of a child away, which
\* the child had gained by an addOwner on its empty owner set.
ConnectivityOnFirstAndLastWitness ==
    /\ lastOp.op = "removeChild"
    /\ \E i \in 1 .. Len(ownerCalls) :
          /\ ownerCalls[i].op = "removeOwner"
          /\ ownerCalls[i].before > 0
          /\ ownerCalls[i].after = 0
          /\ ownerCalls[i].fired = <<FALSE>>

\* C10: the connectivity signal fires only when the owner count passes
\* between zero and non-zero.
ConnectivityOnlyOnTransition ==
    \A i \in 1 .. Len(ownerCalls) :
        ownerCalls[i].fired # <<>>
            => ((ownerCalls[i].before = 0) # (ownerCalls[i].after = 0))

\* The originals that are keys of the clone map.
Keys == {o \in Obj : cloneMap[o] # Null}

\* The keys that are holders and were cloned with non-node cloning enabled.
DeepHolders == {o \in Keys : SlotsOf(kind[o]) # {}} \ clonedShared

ClonedSlotSet(k) == {ClonedSlots(k)[i] : i \in 1 .. Len(ClonedSlots(k))}

\* C5: within one clone map clone() runs at most once per original, exactly
\* for the originals that are keys; every object beyond the originals is the
\* clone of one key; findOrCreateClone returns the stored clone; and two
\* holders cloned with non-node cloning enabled that reference the same
\* payload have clones that reference the one clone of that payload.
CloneOncePerMap ==
    /\ \A o \in Obj : cloneCalls[o] = IF o \in Keys THEN 1 ELSE 0
    /\ Cardinality(Live) = Cardinality(Originals) + Cardinality(Keys)
    /\ (lastOp.op = "findOrCreateClone" /\ ~hung)
           => (lastOp.ret # Null /\ lastOp.ret = cloneMap[lastOp.obj])
    /\ \A h1 \in DeepHolders, h2 \in DeepHolders :
          \A n1 \in ClonedSlotSet(kind[h1]), n2 \in ClonedSlotSet(kind[h2]) :
              (slot[h1][n1] # Null /\ slot[h1][n1] = slot[h2][n2])
                  => /\ slot[cloneMap[h1]][n1] = cloneMap[slot[h1][n1]]
                     /\ slot[cloneMap[h2]][n2] = cloneMap[slot[h1][n1]]
                     /\ cloneMap[slot[h1][n1]] # Null

\* C5 witness: S under A and S2 under B, A and then B cloned through the map
\* with non-node cloning enabled; the clones of both meshes reference the one
\* clone of V.
CloneOncePerMapWitness ==
    /\ children[1] = <<3>> /\ children[2] = <<4>>
    /\ clonedShared = {}
    /\ lastOp.op = "findOrCreateClone" /\ lastOp.obj = 2
    /\ {1, 2, 5, 6, 7} \subseteq Keys
    /\ slot[cloneMap[5]]["vertices"] = cloneMap[7]
    /\ slot[cloneMap[6]]["vertices"] = cloneMap[7]
    /\ cloneCalls[7] = 1

\* C6: the clone of a group has the clones of the group's children, in the
\* same number and order; two child references of cloned groups are the same
\* node exactly when the corresponding references of the clones are.
CloneMirrorsChildren ==
    LET KG == Keys \cap Groups
    IN  /\ \A g \in KG :
              /\ Len(children[cloneMap[g]]) = Len(children[g])
              /\ \A i \in 1 .. Len(children[g]) :
                    children[cloneMap[g]][i] = cloneMap[children[g][i]]
        /\ \A g1 \in KG, g2 \in KG :
              \A i \in 1 .. Len(children[g1]), j \in 1 .. Len(children[g2]) :
                  (children[g1][i] = children[g2][j])
                      <=> (children[cloneMap[g1]][i] = children[cloneMap[g2]][j])

\* C6 witness: A holds S twice and B holds S and S2; the clone of A holds the
\* clone of S twice, the clone of B holds that same clone and another node.
CloneMirrorsChildrenWitness ==
    /\ children[1] = <<3, 3>> /\ children[2] = <<3, 4>>
    /\ {1, 2, 3, 4} \subseteq Keys
    /\ children[cloneMap[1]] = <<cloneMap[3], cloneMap[3]>>
    /\ children[cloneMap[2]] = <<cloneMap[3], cloneMap[4]>>
    /\ cloneMap[3] # cloneMap[4]

\* C7: when every clone of the map was made with non-node cloning enabled,
\* nothing reached from a clone is an object of the original scene, and the
\* writes made through the clones leave the payload of the originals as it was.
CloneIsIndependent ==
    clonedShared = {} =>
        /\ \A o \in Keys : Reach(cloneMap[o]) \cap (Originals \cup Reach(o)) = {}
        /\ \A p \in Originals : content[p] = 0

\* C7 witness: A cloned with non-node cloning enabled, then the vertex array
\* of the cloned mesh written; the original vertex array is unchanged.
CloneIsIndependentWitness ==
    /\ clonedShared = {}
    /\ {1, 3, 5, 7} \subseteq Keys
    /\ lastOp.op = "writePayload" /\ lastOp.obj = cloneMap[5]
    /\ slot[cloneMap[5]]["vertices"] = cloneMap[7]
    /\ content[cloneMap[7]] = 1
    /\ content[7] = 0

\* C8: a holder cloned with non-node cloning disabled has a clone that is a
\* new object and references, in every slot, the object the original references.
SharedCloneKeepsPayload ==
    \A o \in clonedShared \cap Keys :
        /\ cloneMap[o] \notin Originals
        /\ \A n \in SlotsOf(kind[o]) : slot[cloneMap[o]][n] = slot[o][n]

RECURSIVE OwnerPaths(_, _, _)
RECURSIVE OwnerPathsVia(_, _, _)

\* The number of owner paths from object x up to object a, an owner entered
\* twice in the container of an object counting as two links.
OwnerPaths(own, x, a) == IF x = a THEN 1 ELSE OwnerPathsVia(own, own[x], a)

OwnerPathsVia(own, os, a) ==
    IF os = <<>> THEN 0
    ELSE OwnerPaths(own, Head(os), a) + OwnerPathsVia(own, Tail(os), a)

\* The emissions of sigUpdated_ of the last operation made by object a.
EmissionsOf(a) == {i \in 1 .. Len(sigUpdated) : sigUpdated[i][Len(sigUpdated[i])] = a}

\* C11: a returned notifyUpdate(X) has fired X's updated signal first, then
\* that of every transitive owner, each object's emission on a path coming
\* after the emission of the object below it on that path, and every object
\* has emitted once per owner path from X to it.
NotifyOncePerPath ==
    (lastOp.op = "notifyUpdate" /\ ~hung) =>
        /\ sigUpdated # <<>> /\ sigUpdated[1] = <<lastOp.obj>>
        /\ \A i \in 1 .. Len(sigUpdated) :
              LET p == sigUpdated[i]
              IN  /\ p[1] = lastOp.obj
                  /\ \A k \in 1 .. Len(p) - 1 : p[k + 1] \in OwnerSet(owners[p[k]])
                  /\ Len(p) > 1 =>
                        \E j \in 1 .. i - 1 : sigUpdated[j] = SubSeq(p, 1, Len(p) - 1)
        /\ \A a \in Obj :
              Cardinality(EmissionsOf(a)) = OwnerPaths(owners, lastOp.obj, a)

\* C11 witness: the vertex array notified while the shape is under the root
\* and under the transform, and the transform under the root: the root has
\* emitted twice, the vertex array once.
NotifyOncePerPathWitness ==
    /\ lastOp.op = "notifyUpdate" /\ lastOp.obj = 5 /\ ~hung
    /\ owners[3] = <<1, 2>> /\ owners[2] = <<1>>
    /\ Cardinality(EmissionsOf(1)) = 2
    /\ Cardinality(EmissionsOf(5)) = 1

\* C12: every 'removed' notification of removeChild(node, true) and of
\* removeChildAt(index, true) is delivered while the child is in the child
\* list of the group and the group is in the owner set of the child.
RemovedSeenWhileAttached ==
    (lastOp.op \in {"removeChild", "removeChildAt"} /\ lastOp.notify /\ ~hung) =>
        \A i \in 1 .. Len(updateSeen) :
            /\ updateSeen[i].action = "REMOVED"
            /\ lastOp.obj \in updateSeen[i].parents
            /\ lastOp.obj \in updateSeen[i].owners

\* C13: every 'added' notification of addChild(node, true) is delivered with
\* the child in the child list of the group and the group in the owner set of
\* the child, and when the call has returned the group and each of its
\* transitive owners has emitted its updated signal and, if a group, has an
\* invalid bounding-box cache.
AddedSeenAfterAttach ==
    (lastOp.op = "addChild" /\ lastOp.notify /\ ~hung) =>
        /\ updateSeen # <<>>
        /\ \A i \in 1 .. Len(updateSeen) :
              /\ updateSeen[i].action = "ADDED"
              /\ updateSeen[i].origin = lastOp.arg
              /\ lastOp.obj \in updateSeen[i].parents
              /\ lastOp.obj \in updateSeen[i].owners
        /\ \A a \in Ancestors(owners, lastOp.obj) :
              /\ EmissionsOf(a) # {}
              /\ a \in Groups => ~isBboxCacheValid[a]

\* C13 witness: the shape added with notification to the transform, which is
\* under the root, after the boxes of both had been computed with a shape
\* below them.
AddedSeenAfterAttachWitness ==
    /\ lastOp = Op("addChild", 2, 3, TRUE, Null) /\ ~hung
    /\ 1 \in OwnerSet(owners[2])
    /\ bboxCache[1] # EmptyBox /\ bboxCache[2] # EmptyBox
    /\ ~isBboxCacheValid[1] /\ ~isBboxCacheValid[2]
    /\ EmissionsOf(1) # {}

\* C14: the removeOwner made by removeChildAt unregisters exactly one
\* occurrence of the group, and the group stays in the owner set of the
\* removed child while the child still occupies a slot of the group.
RemoveChildAtKeepsOtherSlot ==
    (lastOp.op = "removeChildAt" /\ ~hung) =>
        \A i \in 1 .. Len(ownerCalls) :
            LET call == ownerCalls[i]
            IN  call.op = "removeOwner" =>
                    /\ call.before > 0 => call.after = call.before - 1
                    /\ SgGroup_contains(Heap, lastOp.obj, call.obj)
                           => lastOp.obj \in OwnerSet(owners[call.obj])

\* C15: a boundingBox() call on a group recomputes exactly when the cache of
\* the group is invalid at the call and leaves it valid; a second call right
\* after the first returns the same box without recomputing; an operation
\* other than boundingBox() recomputes nothing, writes no cached box and turns
\* no cache valid.
RecomputeExactlyWhenInvalid ==
    [][IF lastOp'.op = "boundingBox"
       THEN LET g == lastOp'.obj
            IN  /\ (g \in recomputed') <=> ~isBboxCacheValid[g]
                /\ isBboxCacheValid'[g]
                /\ lastOp'.ret = bboxCache'[g]
                /\ (lastOp.op = "boundingBox" /\ lastOp.obj = g)
                       => (lastOp'.ret = lastOp.ret /\ g \notin recomputed')
       ELSE /\ recomputed' = {}
            /\ bboxCache' = bboxCache
            /\ untransformedBboxCache' = untransformedBboxCache
            /\ \A g \in Groups : isBboxCacheValid'[g] => isBboxCacheValid[g]]_vars

\* C15 witness: boundingBox() of the root returned the cached box of the shape
\* below it without recomputing anything.
RecomputeExactlyWhenInvalidWitness ==
    /\ lastOp.op = "boundingBox" /\ lastOp.obj = 1
    /\ recomputed = {}
    /\ isBboxCacheValid[1]
    /\ lastOp.ret # EmptyBox

\* C16: the clone of a group whose cache is invalid does not have its cache
\* marked valid, and boundingBox() of a cloned group is the union of the
\* boxes of the clone's own children under the clone's transform.
ClonedGroupBoxIsDerived ==
    \A g \in Keys \cap Groups :
        LET c == cloneMap[g]
        IN  /\ ~isBboxCacheValid[g] => ~isBboxCacheValid[c]
            /\ BoundingBoxCall(Heap, c, {}).box
                   = TransformOwn(Heap, c,
                         ExpandByChildren(Heap, children[c], EmptyBox, {}).box)

\* The position and scale transform nodes.
Transforms == {g \in Obj : kind[g] \in {"SgPosTransform", "SgScaleTransform"}}

\* C17: for a position or scale transform whose cache is valid,
\* untransformedBoundingBox() is the union of the boxes of its children and
\* boundingBox() is that box under the transform of the node; called on an
\* invalid cache, untransformedBoundingBox() recomputes and returns that union.
TransformBoxesCachedTogether ==
    \A g \in Transforms :
        LET r == SgTransform_untransformedBoundingBox(Heap, g)
            u == ExpandByChildren(Heap, children[g], EmptyBox, {}).box
        IN  /\ r.box = u
            /\ BoundingBoxCall(Heap, g, {}).box = TransformOwn(Heap, g, r.box)
            /\ ~isBboxCacheValid[g] => (g \in r.h.recomputed /\ r.h.isBboxCacheValid[g])

\* C18: getTransform returns the value last given to the setter (for a scale
\* transform as a diagonal matrix), with the cache valid or not, and changes
\* nothing of the node; no operation but the setters changes the transform.
GetTransformReturnsLastSet ==
    [][LET g == lastOp'.obj
       IN  /\ lastOp'.op = "getTransform" =>
                 /\ UNCHANGED heapVars
                 /\ kind[g] = "SgPosTransform" => lastOp'.ret = T_[g]
                 /\ kind[g] = "SgScaleTransform" =>
                        \A i \in 1 .. 3, j \in 1 .. 3 :
                            lastOp'.ret[i][j] = IF i = j THEN scale_[g][i] ELSE 0
           /\ lastOp'.op = "setTranslation" => T_'[g] = lastOp'.arg
           /\ lastOp'.op = "setScale" => scale_'[g] = lastOp'.arg
           /\ lastOp'.op \notin {"setTranslation", "setScale"} =>
                 (T_' = T_ /\ scale_' = scale_)]_vars

\* C18 witness: getTransform of the position transform returned a translation
\* given to the setter while the cache of the node, computed earlier, was
\* invalid.
GetTransformReturnsLastSetWitness ==
    /\ lastOp.op = "getTransform" /\ lastOp.obj = 2
    /\ kind[2] = "SgPosTransform"
    /\ lastOp.ret = <<0, 2, 0>>
    /\ ~isBboxCacheValid[2]
    /\ bboxCache[2] # EmptyBox

\* C19: once the chain Root -> PosTransform(translation (1,0,0)) ->
\* Shape(box of size (2,2,2)) is built, boundingBox() of the root is
\* [0,2] x [-1,1] x [-1,1].
ChainBoxIsTranslatedBox ==
    (/\ children[1] = <<2>> /\ children[2] = <<3>>
     /\ kind[2] = "SgPosTransform" /\ T_[2] = <<1, 0, 0>>)
        => BoundingBoxCall(Heap, 1, {}).box = MakeBox(<<0, -1, -1>>, <<2, 1, 1>>)

\* C20: in the chain Root -> Transform -> Shape with its owner links in
\* place, a removal of the shape from the transform with notification leaves
\* the caches of the transform and of the root invalid, so that the next
\* boundingBox() of the root recomputes and returns the empty box.
RemovalEmptiesRootBox ==
    [][(/\ children[1] = <<2>> /\ children[2] = <<3>>
        /\ 2 \in OwnerSet(owners[3]) /\ 1 \in OwnerSet(owners[2])
        /\ lastOp'.op \in {"removeChild", "removeChildAt"}
        /\ lastOp'.obj = 2 /\ lastOp'.notify)
       => LET r == BoundingBoxCall(Heap', 1, {})
          IN  /\ children'[2] = <<>>
              /\ ~isBboxCacheValid'[1] /\ ~isBboxCacheValid'[2]
              /\ {1, 2} \subseteq r.h.recomputed
              /\ r.box = EmptyBox]_vars

\* C20 witness: the shape removed with notification from the position
\* transform after the root's box had been computed with the shape in place.
RemovalEmptiesRootBoxWitness ==
    /\ lastOp = Op("removeChild", 2, 3, TRUE, TRUE)
    /\ kind[2] = "SgPosTransform"
    /\ children[1] = <<2>> /\ children[2] = <<>>
    /\ bboxCache[1] = MakeBox(<<0, -1, -1>>, <<2, 1, 1>>)
    /\ ~isBboxCacheValid[1]
    /\ BoundingBoxCall(Heap, 1, {}).box = EmptyBox

\* The argument of a primitive call is one the code refuses: a negative
\* extent, radius or height, or a sphere of fewer than 4 divisions.
RefusedPrimitive(op) ==
    \/ /\ op.op \in {"setBox", "generateBox"}
       /\ \E i \in 1 .. 3 : op.arg[i] < 0
    \/ /\ op.op \in {"setSphere", "generateSphere"}
       /\ (op.arg[1] < 0 \/ op.arg[2] < 4)
    \/ /\ op.op \in {"setCylinder", "generateCylinder", "setCone", "generateCone"}
       /\ (op.arg[1] < 0 \/ op.arg[2] < 0)

\* C21: a primitive call with a negative dimension (or a sphere with fewer
\* than 4 divisions) returns false from the SgMesh setter and null from the
\* MeshGenerator, and leaves every object as it was: the vertices, the
\* triangles, the primitive and the bounding box of the mesh included.
RefusedPrimitiveChangesNothing ==
    [][RefusedPrimitive(lastOp') =>
          /\ IF lastOp'.obj = Null THEN lastOp'.ret = Null
             ELSE lastOp'.ret = FALSE
          /\ UNCHANGED heapVars]_vars

\* A sphere of too few divisions was refused on a mesh that had been made a box.
RefusedPrimitiveChangesNothingWitness ==
    /\ lastOp.op = "setSphere"
    /\ lastOp.arg[2] < 4
    /\ lastOp.ret = FALSE
    /\ primitive_[lastOp.obj][1] = "BOX"
    /\ Len(triangleVertices_[lastOp.obj]) = 12

\* The objects reached from those of S through the child lists of objects
\* that have no clone in the map yet (a lookup that hits ends the descent).
RECURSIVE DownUncloned(_)
DownUncloned(S) ==
    LET T == S \cup UNION {{children[x][i] : i \in 1 .. Len(children[x])} :
                             x \in {y \in S : cloneMap[y] = Null}}
    IN  IF T = S THEN S ELSE DownUncloned(T)

\* The cloning of org descends into a cycle of child links.
CycleBelow(org) ==
    \E x \in DownUncloned({org}) :
        /\ cloneMap[x] = Null
        /\ x \in DownUncloned({children[x][i] : i \in 1 .. Len(children[x])})

\* C22: addChild accepts an ancestor of the receiver, and findOrCreateClone
\* called on an object from which such a cycle of child links is reached
\* never returns.
CloneOfCycleNeverReturns ==
    [][(~hung /\ lastOp'.op = "findOrCreateClone" /\ CycleBelow(lastOp'.obj))
          => hung']_vars

\* B was added under A and A under B by addChild, and the cloning of A hung.
CloneOfCycleNeverReturnsWitness ==
    /\ hung
    /\ lastOp.op = "findOrCreateClone"
    /\ lastOp.obj = 1
    /\ SgGroup_contains(Heap, 1, 2)
    /\ SgGroup_contains(Heap, 2, 1)

\* C23: the clone of a holder has every reference slot of the original
\* filled: no slot that refers to an object in the original is null in the
\* clone.
CloneCarriesEverySlot ==
    \A org \in Originals :
        cloneMap[org] # Null =>
            \A name \in DOMAIN slot[org] :
                slot[org][name] # Null => slot[cloneMap[org]][name] # Null

\* C24: after any sequence of setter and getOrCreate calls a holder H is in the
\* owner container of an object P exactly when some reference slot of H
\* refers to P.
OwnerIffSlotRefers ==
    \A H \in Live, P \in Live :
        SlotsOf(kind[H]) # {} =>
            (H \in OwnerSet(owners[P]) <=> \E name \in DOMAIN slot[H] : slot[H][name] = P)

\* C25: a mutable access (image(), pixels(), setSize) to an SgImage whose
\* Image is shared with another SgImage first gives the SgImage a new Image
\* of its own, so that the write leaves the Image of the others as it was;
\* when the SgImage is the only holder nothing is copied.
MutableAccessCopiesSharedImage ==
    [][lastOp'.op \in {"image", "pixels", "setSize"} =>
          LET o == lastOp'.obj
              b == image_[o]
          IN  IF Cardinality({q \in Obj : image_[q] = b}) > 1
              THEN /\ kind[image_'[o]] = "free"
                   /\ content'[image_'[o]] = lastOp'.arg
                   /\ content'[b] = content[b]
                   /\ \A q \in Obj \ {o} : image_'[q] = image_[q]
              ELSE /\ image_' = image_
                   /\ kind' = kind
                   /\ content'[b] = lastOp'.arg]_vars

\* A clone was written through setSize: it has an Image of its own now, and
\* the original still has the value it had.
MutableAccessCopiesSharedImageWitness ==
    /\ lastOp.op = "setSize"
    /\ \E q \in Obj :
          /\ cloneCalls[q] > 0
          /\ cloneMap[q] = Null
          /\ image_[q] # Null
          /\ image_[q] # image_[lastOp.obj]
          /\ content[image_[q]] # content[image_[lastOp.obj]]

\* C26: accept(visitor) of a node of any kind makes exactly one call on the
\* visitor, with the node itself, of the method of its kind (of the nearest
\* kind that has a method, for the lights, the cameras and the fog).
AcceptCallsOneVisitMethod ==
    lastOp.op = "accept" =>
        LET k == kind[lastOp.obj]
            method ==
                CASE k = "SgNode" -> "visitNode"
                  [] k = "SgGroup" -> "visitGroup"
                  [] k = "SgInvariantGroup" -> "visitInvariantGroup"
                  [] k = "SgPosTransform" -> "visitPosTransform"
                  [] k = "SgScaleTransform" -> "visitScaleTransform"
                  [] k = "SgUnpickableGroup" -> "visitUnpickableGroup"
                  [] k = "SgOverlay" -> "visitOverlay"
                  [] k = "SgShape" -> "visitShape"
                  [] k = "SgPointSet" -> "visitPointSet"
                  [] k = "SgLineSet" -> "visitLineSet"
                  [] k \in {"SgPreprocessed", "SgFog"} -> "visitPreprocessed"
                  [] k \in {"SgCamera", "SgPerspectiveCamera", "SgOrthographicCamera"} ->
                        "visitCamera"
                  [] OTHER -> "visitLight"
        IN  /\ Len(lastOp.ret) = 1
            /\ lastOp.ret[1].node = lastOp.obj
            /\ lastOp.ret[1].method = method

\* C27: the children of an SgOverlay do not contribute to the box
\* boundingBox() returns for a group that contains the overlay: a group all
\* of whose children are overlays has an empty box.
OverlayChildrenExcluded ==
    (/\ lastOp.op = "boundingBox"
     /\ kind[lastOp.obj] = "SgGroup"
     /\ \A i \in 1 .. Len(children[lastOp.obj]) :
            kind[children[lastOp.obj][i]] = "SgOverlay")
        => lastOp.ret = EmptyBox

\* C28: after addSubItem or insertSubItem returned true the item is a sub
\* item, whether or not it had a parent before the call.
SubItemAfterInsertSubItem ==
    (lastOp.op = "insertSubItem" /\ lastOp.ret = TRUE)
        => "SUB_ITEM" \in attributes[lastOp.arg[1]]

\* C29: after a child item was attached to an item by a manual operation and
\* the attachment was accepted, the item is not temporal.
ManualAttachMakesNonTemporal ==
    (lastOp.op = "insertChildItem" /\ lastOp.arg[3] /\ lastOp.ret = TRUE)
        => "TEMPORAL" \notin attributes[lastOp.obj]

\* C30: the owner container of a live object never holds a destroyed object.
NoDestroyedOwner ==
    \A P \in Obj :
        kind[P] \notin {"free", "destroyed"} =>
            \A x \in OwnerSet(owners[P]) : kind[x] # "destroyed"

RECURSIVE TrueBox(_, _)
\* The box of object o computed from the child lists as they are, no cache
\* consulted.
TrueBox(h, o) ==
    IF h.kind[o] \notin GroupKinds THEN LeafBoundingBox(h, o)
    ELSE LET RECURSIVE U(_)
             U(cs) == IF cs = <<>> THEN EmptyBox
                      ELSE ExpandBy(TrueBox(h, Head(cs)), U(Tail(cs)))
         IN  TransformOwn(h, o, U(h.children[o]))

\* C31: when removeChild(node, true) has returned after a slot of a group's
\* updated signal called boundingBox() on that group or on one of its
\* ancestors during the 'removed' notification, the next boundingBox() of
\* every group returns the box of the child lists without the removed child.
RemovedChildLeavesNoStaleBox ==
    (lastOp.op = "removeChild" /\ lastOp.ret /\ ~hung) =>
        \A g \in Groups : BoundingBoxCall(Heap, g, {}).box = TrueBox(Heap, g)

\* C32: during notifyUpdate(X) on an acyclic graph the path of the update
\* descriptor at each emission of sigUpdated_ is a chain of owner links that
\* starts at X and ends at the emitting object, and when the walk has
\* returned the path is empty again, as it was before the call.
PathIsOwnerChain ==
    (lastOp.op = "notifyUpdate" /\ ~hung) =>
        /\ lastOp.ret = <<>>
        /\ sigUpdated # <<>>
        /\ \A i \in 1 .. Len(sigUpdated) :
              LET p == sigUpdated[i]
              IN  /\ p[1] = lastOp.obj
                  /\ \A k \in 1 .. Len(p) - 1 : p[k + 1] \in OwnerSet(owners[p[k]])
        /\ \A a \in Obj :
              Cardinality(EmissionsOf(a)) = OwnerPaths(owners, lastOp.obj, a)

\* C32 witness: the vertex array notified while the shape is under the root
\* and under the transform and the transform under the root; the walk went
\* up to the root by the root's own link and, after the pop, by the transform.
PathIsOwnerChainWitness ==
    /\ lastOp.op = "notifyUpdate" /\ lastOp.obj = 5 /\ ~hung
    /\ owners[3] = <<1, 2>> /\ owners[2] = <<1>>
    /\ sigUpdated = << <<5>>, <<5, 4>>, <<5, 4, 3>>, <<5, 4, 3, 1>>,
                       <<5, 4, 3, 2>>, <<5, 4, 3, 2, 1>> >>
    /\ lastOp.ret = <<>>

CloneLeavesOriginalsUnchanged ==
    [][(lastOp'.op = "findOrCreateClone" /\ ~hung') =>
          LET r == SgCloneMap_findOrCreateClone(Heap, lastOp'.obj, {}).h
              created == {c \in Obj : kind[c] = "free" /\ kind'[c] # "free"}
          IN  /\ r.sigUpdated = <<>>
              /\ \A i \in 1 .. Len(r.ownerCalls) :
                    r.ownerCalls[i].obj \in Originals => r.ownerCalls[i].fired = <<>>
              /\ \A o \in Originals :
                    /\ kind'[o] = kind[o]
                    /\ children'[o] = children[o]
                    /\ slot'[o] = slot[o]
                    /\ isBboxCacheValid'[o] = isBboxCacheValid[o]
                    /\ bboxCache'[o] = bboxCache[o]
                    /\ content'[o] = content[o]
                    /\ SelectSeq(owners'[o], LAMBDA x : x \notin created) = owners[o]
                    /\ isNonNodeCloningEnabled_ => owners'[o] = owners[o]
                    /\ \A x \in OwnerSet(owners'[o]) \cap created :
                          /\ kind[o] \notin NodeKinds
                          /\ \E n \in DOMAIN slot'[x] : slot'[x][n] = o]_vars

\* C34 witness: the group A cloned with non-node cloning enabled into a map
\* that holds a clone of the mesh M1 made with non-node cloning disabled: the
\* vertex array has that clone as its third owner, the mesh M1 only the
\* shape S.
CloneLeavesOriginalsUnchangedWitness ==
    /\ lastOp.op = "findOrCreateClone" /\ lastOp.obj = 1 /\ ~hung
    /\ isNonNodeCloningEnabled_
    /\ cloneMap[3] # Null /\ cloneMap[5] # Null
    /\ 5 \in clonedShared
    /\ owners[7] = <<5, 6, cloneMap[5]>>
    /\ owners[5] = <<3>>
    /\ slot[cloneMap[3]]["mesh"] = cloneMap[5]

\* The vertex count the algorithm of a primitive reserves for with division
\* number n.
ReservedVertexCount(op, n) ==
    CASE op = "setBox" -> 8
      [] op \in {"setSphere", "generateSphere"} -> (n \div 2 - 1) * n + 2
      [] op \in {"setCylinder", "generateCylinder"} -> 2 * n + 2
      [] op \in {"setCone", "generateCone"} -> n + 2

\* C35: a primitive call that does not refuse its arguments, whatever the
\* division number, has filled the mesh: the vertex array has the number of
\* vertices the algorithm reserves for and every index of every triangle
\* lies in [0, vertex count).
PrimitiveMeshWellFormed ==
    (/\ lastOp.op \in {"setBox", "setSphere", "setCylinder", "setCone",
                       "generateSphere", "generateCylinder", "generateCone"}
     /\ lastOp.ret # "refused") =>
        /\ lastOp.ret = "accepted"
        /\ LET m == lastOp.obj
               count == content[slot[m]["vertices"]]
           IN  /\ count = ReservedVertexCount(lastOp.op, lastOp.arg)
               /\ \A i \in 1 .. Len(triangleVertices_[m]) :
                     \A k \in 1 .. 3 :
                         /\ 0 <= triangleVertices_[m][i][k]
                         /\ triangleVertices_[m][i][k] < count

Items == {o \in Obj : kind[o] = "Item"}

RECURSIVE ChildChain(_, _, _)
\* The items met from item c along nextItem_, at most n of them.
ChildChain(L, c, n) ==
    IF c = Null \/ n = 0 THEN {} ELSE {c} \cup ChildChain(L, L[c].nextItem_, n - 1)

\* The child list of item p is a doubly linked list of the items that have
\* p as parent, each once, and numChildren_ is their number.
WellFormedChildList(par, L, p) ==
    LET C == {c \in Items : par[c] = p}
        first == L[p].firstChild_
        last == L[p].lastChild_
    IN  /\ L[p].numChildren_ = Cardinality(C)
        /\ C = {} => first = Null /\ last = Null
        /\ C # {} => /\ first \in C /\ L[first].prevItem_ = Null
                     /\ last \in C /\ L[last].nextItem_ = Null
        /\ \A c \in C :
              /\ L[c].nextItem_ # Null =>
                    L[c].nextItem_ \in C /\ L[L[c].nextItem_].prevItem_ = c
              /\ L[c].prevItem_ # Null =>
                    L[c].prevItem_ \in C /\ L[L[c].prevItem_].nextItem_ = c
        /\ ChildChain(L, first, Cardinality(C)) = C

\* C36: every call of addChildItem, insertChildItem, addSubItem,
\* insertSubItem and detachFromParentItem that returns leaves the child list
\* of every item a well-formed doubly linked list with numChildren_ its
\* length, and an accepted insertion has placed the item immediately before
\* nextItem when nextItem was a child of the receiver and at the end
\* otherwise.
ChildListsWellFormed ==
    [][(/\ lastOp'.op \in {"insertChildItem", "insertSubItem", "detachFromParentItem"}
        /\ ~hung') =>
          /\ \A p \in Items : WellFormedChildList(parent_', itemLinks', p)
          /\ (lastOp'.op # "detachFromParentItem" /\ lastOp'.ret = TRUE) =>
                LET this == lastOp'.obj
                    item == lastOp'.arg[1]
                    nextItem == lastOp'.arg[2]
                IN  IF nextItem # Null /\ parent_[nextItem] = this
                    THEN itemLinks'[item].nextItem_ = nextItem
                    ELSE /\ itemLinks'[this].lastChild_ = item
                         /\ itemLinks'[item].nextItem_ = Null]_vars

\* C37: no item is its own ancestor after any sequence of insertions and
\* detachments, and the walks along parent_ of findRootItem and of
\* addToItemsToEmitSigSubTreeChanged end in every call.
ItemsStayForest ==
    /\ ~hung
    /\ \A item \in Items : ~ParentWalkDiverges(parent_, item)

\* C38: an insertion that onChildItemAboutToBeAdded rejects returns false and
\* changes no parent, no link of a child list, no count and no attribute
\* flag of any item.
RejectedInsertChangesNothing ==
    [][(/\ lastOp'.op \in {"insertChildItem", "insertSubItem"}
        /\ ~hung'
        /\ lastOp'.ret = FALSE) =>
          /\ parent_' = parent_
          /\ itemLinks' = itemLinks
          /\ attributes' = attributes]_vars

\* C39: after every operation each world item, a duplicate included, has
\* collision detection enabled exactly when it is connected to the tree
\* changed signal of the root item; enableCollisionDetection(on) with the
\* value in effect changes nothing and emits nothing, and a call that changes
\* the value emits notifyUpdate and sigCollisionsUpdated once each.
EnabledIffSubscribed ==
    [][/\ \A w \in {o \in Obj : kind'[o] = "WorldItem"} :
             impl'[w].isCollisionDetectionEnabled
                 <=> impl'[w].sigItemTreeChangedConnection
       /\ lastOp'.op = "enableCollisionDetection" =>
             IF impl[lastOp'.obj].isCollisionDetectionEnabled = lastOp'.arg
             THEN /\ impl' = impl
                  /\ lastOp'.ret = [notifyUpdate |-> 0, sigCollisionsUpdated |-> 0]
             ELSE /\ impl'[lastOp'.obj].isCollisionDetectionEnabled = lastOp'.arg
                  /\ lastOp'.ret = [notifyUpdate |-> 1, sigCollisionsUpdated |-> 1]]_vars

====
